---- MODULE Spec2Model ----
(***************************************************************************)
(* The OGDL text parser (productions.go) as a state machine.               *)
(*                                                                         *)
(* The parser state is the reader position over a fixed input, the owed    *)
(* spaces left behind by Block(), the indentation table and the event      *)
(* sink (current level, depth of the last Add, the nodes added so far).    *)
(* One step of the machine is one iteration of the loop of Ogdl(): a call  *)
(* of Line().  The productions are operators over a parser record, written *)
(* statement by statement after the Go source.                             *)
(***************************************************************************)
EXTENDS Integers, Sequences, FiniteSets, TLC

VARIABLES input,    \* the byte stream being parsed (never changes)
          pos,      \* index of the next byte Read() returns (1-based)
          spaces,   \* Parser.spaces: indentation eaten by Block() and owed
          ind,      \* Parser.ind: the indentation table, ind[d+1] for depth d
          indTop,   \* the deepest depth of the table currently recorded
          level,    \* the event sink's current depth
          lastAdd,  \* the depth of the sink's most recent Add (-1: none)
          events,   \* the nodes added to the sink, in order, with their depth
          calls,    \* history: what each Block() and Quoted() call returned
          lines,    \* history: the locals of each Line() call that returned
          pc        \* where Ogdl() is: parsing, done, error, hang, panic

\* the log file (a Log handle over one os.File)
VARIABLES file,     \* the bytes of the file behind Log.f
          fpos,     \* the file position of the handle Log.f
          added,    \* history: what each Add / AddBinary call wrote and returned
          got       \* history: what the last Get / GetBinary call returned

\* the template engine (NewTemplate, Process)
VARIABLES tpl,      \* t.Out: the children of the template root
          ctx,      \* the context graph the template is processed against
          out,      \* the bytes Process() has written to its buffer
          seen      \* history: the nodes the loops of process() came to, in order

\* the function bridge (Graph.Function on one node)
VARIABLES fnode,    \* the children of the !type node: its name, then the instance
          finit,    \* the node has an !init child
          made,     \* history: how many times a constructor has run
          fres      \* history: what each Function() call returned

\* the reader's push-back and the productions of paths and expressions
VARIABLES back,     \* the number of Unread() calls since the last Read()
          maxBack,  \* history: the most Unread() calls made with no Read() between
          ungets,   \* how many Unread() calls in a row the reader can honour
          prods     \* history: how each bracketed or speculative production returned

\* the character classes (chars.go)
VARIABLES ch,       \* the integer a character class is asked about
          cls       \* history: what the class function returned for it

parserVars == <<input, pos, spaces, ind, indTop, level, lastAdd, events, calls, lines, pc>>

logVars == <<file, fpos, added, got>>

templateVars == <<tpl, ctx, out, seen>>

functionVars == <<fnode, finit, made, fres>>

charVars == <<ch, cls>>

exprVars == <<back, maxBack, ungets, prods>>

vars == <<parserVars, logVars, functionVars, templateVars, charVars, exprVars>>

----------------------------------------------------------------------------
(* Bounds of the explored inputs *)

MaxLines == 2
MaxIndent == 2
MaxBody == 4
MaxQuoted == 3
MaxScalars == 3
MaxBlockLines == 3
MaxRecords == 3
MaxText == 3
MaxNodes == 4
MaxDepth == 2
MaxCalls == 3
MaxChar == 300
MaxExpr == 4
MaxNest == 2

----------------------------------------------------------------------------
(* Character codes used by the productions *)

TAB == 9
LF == 10
CR == 13
SP == 32
DQUOTE == 34
HASH == 35
SQUOTE == 39
LPAREN == 40
RPAREN == 41
COMMA == 44
BSLASH == 92
DOLLAR == 36

\* The value Read() returns once the stream is exhausted.
EofChar == 0

----------------------------------------------------------------------------
(* chars.go *)

IsTextChar(c) == c > 32 /\ c # LPAREN /\ c # RPAREN /\ c # COMMA

IsEndChar(c) == c < 32 /\ c # TAB /\ c # LF /\ c # CR

IsBreakChar(c) == c = 10 \/ c = 13

IsTemplateTextChar(c) == ~IsEndChar(c) /\ c # DOLLAR

\* the bytes of "+-*/%&|!<>=~^"
OperatorChars == {43, 45, 42, 47, 37, 38, 124, 33, 60, 62, 61, 126, 94}

\* byte(c) of the Go source: the low eight bits
Byte(c) == c % 256

\* IsOperatorChar: a negative c is no operator; otherwise byte(c), the low
\* eight bits of c, is looked up among the operators
IsOperatorChar(c) == IF c < 0 THEN FALSE ELSE Byte(c) \in OperatorChars

----------------------------------------------------------------------------
(* The stream reader and the event sink *)

\* Read(): the byte at the reader's position, EofChar past the end.  A Read()
\* that is followed by Unread() leaves the reader where it was: the
\* productions below look at Peek(st) and consume with Adv(st) on the paths
\* of the source that do not push the byte back.
Peek(st) == IF st.pos >= 1 /\ st.pos <= Len(input) THEN input[st.pos] ELSE EofChar

\* The state after Read() has consumed that byte.
Adv(st) == [st EXCEPT !.pos = @ + 1]

\* lastnl: the number of spaces at the start of the line the reader is on.
RECURSIVE LineStart(_)
LineStart(k) ==
    IF k <= 1 THEN 1
    ELSE IF k - 1 <= Len(input) /\ input[k - 1] = LF THEN k
    ELSE LineStart(k - 1)

RECURSIVE CountSpaces(_)
CountSpaces(k) ==
    IF k <= Len(input) /\ input[k] = SP THEN 1 + CountSpaces(k + 1) ELSE 0

LastIndent(st) == CountSpaces(LineStart(st.pos))

\* ev.Add(v): a new node at the current depth, which becomes the last added.
Add(st, v) ==
    [st EXCEPT !.events = Append(@, [lev |-> st.level, val |-> v]),
               !.lastAdd = st.level]

\* ev.Inc(): the current depth becomes the depth of the last Add plus one.
Inc(st) == [st EXCEPT !.level = st.lastAdd + 1]

\* ev.SetLevel(d)
SetLevel(st, d) == [st EXCEPT !.level = d]

\* the entry of depth d in an indentation table, zero where never written
IndOf(tab, d) == IF d >= 0 /\ d + 1 <= Len(tab) THEN tab[d + 1] ELSE 0

\* p.ind[d]
IndAt(st, d) == IndOf(st.ind, d)

\* p.setLevel(lev, n): record column n for depth lev; deeper entries are
\* no longer part of the table.
setLevel(st, lev, n) ==
    LET len == IF lev + 1 > Len(st.ind) THEN lev + 1 ELSE Len(st.ind)
    IN [st EXCEPT !.ind = [k \in 1..len |-> IF k = lev + 1 THEN n ELSE IndAt(st, k - 1)],
                  !.indTop = lev]

\* p.getLevel(n): the smallest recorded depth whose column is >= n; a column
\* greater than all of them selects the deepest recorded depth.
getLevel(st, n) ==
    LET ds == {d \in 0..st.indTop : IndAt(st, d) >= n}
    IN IF ds = {} THEN st.indTop
       ELSE CHOOSE d \in ds : \A e \in ds : d <= e

----------------------------------------------------------------------------
(* productions.go: the lexical productions.  A value that the source keeps  *)
(* in a local variable is the parameter of the operator that models the     *)
(* statements after the assignment.                                         *)

\* Space: the run of spaces and tabs after the first, counted while uniform
RECURSIVE SpaceLoop(_, _, _)
SpaceLoop(st, c, n) ==
    IF Peek(st) # 32 /\ Peek(st) # 9
    THEN [st |-> st, ok |-> TRUE, n |-> n]
    ELSE SpaceLoop(Adv(st), c, IF n # 0 /\ Peek(st) = c THEN n + 1 ELSE 0)

\* Space: the owed spaces of a Block() if any, else the spaces and tabs read
Space(st) ==
    IF st.spaces > 0
    THEN [st |-> [st EXCEPT !.spaces = 0], ok |-> TRUE, n |-> st.spaces]
    ELSE IF Peek(st) # 32 /\ Peek(st) # 9
    THEN [st |-> st, ok |-> FALSE, n |-> 0]
    ELSE SpaceLoop(Adv(st), Peek(st), 1)

\* WhiteSpace: consume spaces, tabs and line breaks
RECURSIVE WhiteSpace(_)
WhiteSpace(st) ==
    IF Peek(st) # 13 /\ Peek(st) # 10 /\ Peek(st) # 9 /\ Peek(st) # 32
    THEN st
    ELSE WhiteSpace(Adv(st))

\* Break: NL, CR or CR+NL
Break(st) ==
    IF Peek(st) = 13
    THEN IF Peek(Adv(st)) # 10 THEN Adv(st) ELSE Adv(Adv(st))
    ELSE IF Peek(st) = 10 THEN Adv(st) ELSE st

\* End: the end of the stream has been reached (the byte stays consumed)
End(st) ==
    IF Peek(st) < 32 /\ Peek(st) # 9 /\ Peek(st) # 10 /\ Peek(st) # 13
    THEN [st |-> Adv(st), ok |-> TRUE]
    ELSE [st |-> st, ok |-> FALSE]

\* Comment: from # on.  The loop stops after reading a break or end
\* character, which stays consumed (the test of line 339 is never reached
\* with c = 13: IsBreakChar has left the loop before).
RECURSIVE CommentLoop(_)
CommentLoop(st) ==
    IF IsEndChar(Peek(st)) \/ IsBreakChar(Peek(st)) THEN Adv(st) ELSE CommentLoop(Adv(st))

Comment(st) ==
    IF Peek(st) = HASH
    THEN [st |-> CommentLoop(Adv(st)), ok |-> TRUE]
    ELSE [st |-> st, ok |-> FALSE]

\* String: text characters, not beginning with #
RECURSIVE StringLoop(_, _)
StringLoop(st, buf) ==
    IF ~IsTextChar(Peek(st))
    THEN [st |-> st, ok |-> TRUE, val |-> buf]
    ELSE StringLoop(Adv(st), Append(buf, Byte(Peek(st))))

String(st) ==
    IF ~IsTextChar(Peek(st)) \/ Peek(st) = HASH
    THEN [st |-> st, ok |-> FALSE, val |-> <<>>]
    ELSE StringLoop(Adv(st), <<Byte(Peek(st))>>)

\* the spaces a continuation line of a quoted string keeps: n less lnl
Pad(n, lnl) == [k \in 1..(n - lnl) |-> SP]

\* A production that cannot return: the first one wins.
Abort(st, how) == [st EXCEPT !.abort = IF @ = "none" THEN how ELSE @]

\* Quoted: the loop of lines 401-422, c being the byte just read and buf
\* the buffer before it is appended.  Once the stream is exhausted every
\* Read() returns EofChar, which is no delimiter: the loop appends for ever.
RECURSIVE QuotedLoop(_, _, _, _), QuotedNewline(_, _, _, _), QuotedEscape(_, _, _, _)
QuotedLoop(st, cs, lnl, buf) ==
    IF Peek(st) = cs
    THEN [st |-> Adv(st), val |-> buf]
    ELSE IF st.pos > Len(input)
    THEN [st |-> Abort(st, "hang"), val |-> buf]
    ELSE IF Peek(st) = 10
    THEN QuotedNewline(Space(Adv(st)), cs, lnl, Append(buf, Byte(Peek(st))))
    ELSE IF Peek(st) = BSLASH
    THEN QuotedEscape(Adv(st), cs, lnl, Append(buf, Byte(Peek(st))))
    ELSE QuotedLoop(Adv(st), cs, lnl, Append(buf, Byte(Peek(st))))

\* lines 409-414: after a newline, sp is what Space() returned
QuotedNewline(sp, cs, lnl, buf) == QuotedLoop(sp.st, cs, lnl, buf \o Pad(sp.n, lnl))

\* lines 415-421: after a backslash, the next byte is read; the backslash
\* is already in the buffer
QuotedEscape(st, cs, lnl, buf) ==
    QuotedLoop(Adv(st), cs, lnl,
               Append(IF Peek(st) # DQUOTE /\ Peek(st) # SQUOTE
                      THEN Append(buf, BSLASH) ELSE buf,
                      Byte(Peek(st))))

\* line 425: the return of Quoted(), r being the state and buffer at the end
\* of the loop; the call is recorded
QuotedReturn(st, r) ==
    [st |-> [r.st EXCEPT !.calls = Append(@,
                [fn |-> "Quoted", at |-> st.pos, endpos |-> r.st.pos,
                 ret |-> r.val, i |-> 0, owed |-> 0])],
     ok |-> TRUE, val |-> r.val]

Quoted(st) ==
    IF Peek(st) # DQUOTE /\ Peek(st) # SQUOTE
    THEN [st |-> st, ok |-> FALSE, val |-> <<>>]
    ELSE QuotedReturn(st, QuotedLoop(Adv(st), Peek(st), LastIndent(Adv(st)), <<>>))

\* Scalar ::= quoted | string, q being what Quoted() returned
ScalarOr(q) == IF q.ok THEN q ELSE String(q.st)

Scalar(st) == ScalarOr(Quoted(st))

\* Block: the inner loop of lines 475-486 reads one line into the buffer
RECURSIVE BlockLine(_, _), BlockLineEnd(_, _, _)
BlockLine(st, buf) ==
    IF Peek(st) = 13 THEN BlockLine(Adv(st), Append(buf, Byte(Peek(st))))
    ELSE IF Peek(st) = 10
    THEN [st |-> Adv(st), c |-> Peek(st), buf |-> Append(buf, Byte(Peek(st)))]
    ELSE BlockLineEnd(End(Adv(st)), Peek(st), Append(buf, Byte(Peek(st))))

\* line 483: e is what End() returned after the byte c was written
BlockLineEnd(e, c, buf) ==
    IF e.ok THEN [st |-> e.st, c |-> c, buf |-> buf] ELSE BlockLine(e.st, buf)

\* the loop of lines 463-489 and the removal of the trailing NL
RECURSIVE BlockLoop(_, _, _, _, _, _), BlockAfterLine(_, _, _), BlockAfterSpace(_, _, _, _, _)
BlockLoop(st, i, ns, j, c, buf) ==
    IF j <= i
    THEN [st |-> [st EXCEPT !.spaces = j], owed |-> j,
          val |-> IF c = 10 /\ Len(buf) > 0 THEN SubSeq(buf, 1, Len(buf) - 1) ELSE buf]
    ELSE BlockAfterLine(BlockLine(st, buf), i, IF j < ns THEN j ELSE ns)

\* line 488: r is the state, last byte and buffer after a line was read
BlockAfterLine(r, i, ns) == BlockAfterSpace(Space(r.st), i, ns, r.c, r.buf)

BlockAfterSpace(sp, i, ns, c, buf) == BlockLoop(sp.st, i, ns, sp.n, c, buf)

\* line 498: the return of Block(), r being the end of the loop; the call is
\* recorded
BlockReturn(st, i, r) ==
    [st |-> [r.st EXCEPT !.calls = Append(@,
                [fn |-> "Block", at |-> st.pos, endpos |-> r.st.pos,
                 ret |-> r.val, i |-> i, owed |-> r.owed])],
     ok |-> TRUE, val |-> r.val]

\* lines 452-463: sp is what Space() returned after the opening line, c the
\* line break read at line 439
BlockBody(st, i, sp, c) ==
    IF sp.ok /\ sp.n = 0
    THEN [st |-> Abort(sp.st, "panic"), ok |-> TRUE, val |-> <<>>]
    ELSE BlockReturn(st, i, BlockLoop(sp.st, i, sp.n, sp.n, c, <<>>))

\* lines 446-450: the indentation the block has to exceed, s2 being the
\* state after the backslash and the line break
BlockLimit(s2) == IF s2.level > 0 THEN IndAt(s2, s2.level - 1) ELSE 0

Block(st) ==
    IF Peek(st) # BSLASH
    THEN [st |-> st, ok |-> FALSE, val |-> <<>>]
    ELSE IF Peek(Adv(st)) # 10 /\ Peek(Adv(st)) # 13
    THEN [st |-> st, ok |-> FALSE, val |-> <<>>]
    ELSE BlockBody(st, BlockLimit(Adv(Adv(st))), Space(Adv(Adv(st))), Peek(Adv(st)))

----------------------------------------------------------------------------
(* productions.go: Sequence, Group and Line *)

RECURSIVE Group(_), GroupClose(_, _), SequenceLoop(_, _, _, _),
          SequenceGroup(_, _, _, _), SequenceScalar(_, _, _, _)

\* lines 282-289 of Sequence, after the spaces: a comma resets the level to
\* the one the sequence started at, no comma descends one level
SequenceComma(st, i) ==
    IF Peek(st) = COMMA
    THEN SetLevel(WhiteSpace(Adv(st)), i)
    ELSE Inc(st)

\* lines 276-289 of Sequence
SequenceSep(st, i) == SequenceComma(WhiteSpace(st), i)

\* the loop of lines 261-290
SequenceLoop(st, i, wasGroup, n) == SequenceGroup(Group(st), i, wasGroup, n)

\* lines 263-267: g is what Group() returned
SequenceGroup(g, i, wasGroup, n) ==
    IF g.ok THEN SequenceLoop(SequenceSep(g.st, i), i, TRUE, n + 1)
    ELSE IF g.err THEN [st |-> g.st, any |-> FALSE, wasGroup |-> FALSE, err |-> TRUE]
    ELSE SequenceScalar(Scalar(g.st), i, wasGroup, n)

\* lines 268-274: b is what Scalar() returned
SequenceScalar(b, i, wasGroup, n) ==
    IF ~b.ok
    THEN [st |-> b.st, any |-> n > 0, wasGroup |-> wasGroup, err |-> FALSE]
    ELSE SequenceLoop(SequenceSep(Add(b.st, b.val), i), i, FALSE, n + 1)

Sequence(st) == SequenceLoop(st, st.level, FALSE, 0)

\* Group ::= '(' Space? Sequence? Space? ')'.  What Sequence() returns,
\* its error included, is dropped.
Group(st) ==
    IF Peek(st) # LPAREN
    THEN [st |-> st, ok |-> FALSE, err |-> FALSE]
    ELSE GroupClose(WhiteSpace(Sequence(WhiteSpace(Adv(st))).st), Adv(st).level)

\* lines 308-314: s3 is the state before the closing parenthesis
GroupClose(s3, i) ==
    IF Peek(s3) # RPAREN
    THEN [st |-> s3, ok |-> FALSE, err |-> TRUE]
    ELSE [st |-> SetLevel(Adv(s3), i), ok |-> TRUE, err |-> FALSE]

\* LineComma with the reset of the level after a comma left out
LineComma_NoReset(st, l) ==
    IF Peek(st) = COMMA
    THEN Inc(Space(Adv(st)).st)
    ELSE Inc(st)

\* lines 119-126 of Line, after the spaces: a comma resets the level to the
\* base level of the line, no comma descends one level
LineComma(st, l) ==
    IF Peek(st) = COMMA
    THEN SetLevel(Space(Adv(st)).st, l)
    ELSE Inc(st)

\* lines 117-126 of Line
LineSep(st, l) == LineComma(Space(st).st, l)

\* the loop of lines 87-128
RECURSIVE LineLoop(_, _), LineGroup(_, _), LineComment(_, _), LineBlock(_, _),
          LineScalar(_, _)
LineLoop(st, l) == LineGroup(Group(st), l)

\* lines 89-94: g is what Group() returned
LineGroup(g, l) ==
    IF g.ok THEN LineLoop(LineSep(g.st, l), l)
    ELSE IF g.err THEN [st |-> g.st, err |-> TRUE, comment |-> FALSE]
    ELSE LineComment(Comment(g.st), l)

\* lines 95-99: cm is what Comment() returned
LineComment(cm, l) ==
    IF cm.ok
    THEN [st |-> Break(Space(cm.st).st), err |-> FALSE, comment |-> TRUE]
    ELSE LineBlock(Block(cm.st), l)

\* lines 100-106: b is what Block() returned
LineBlock(b, l) ==
    IF b.ok
    THEN [st |-> Break(Add(b.st, b.val)), err |-> FALSE, comment |-> FALSE]
    ELSE LineScalar(Scalar(b.st), l)

\* lines 107-114: s is what Scalar() returned
LineScalar(s, l) ==
    IF s.ok
    THEN LineLoop(LineSep(Add(s.st, s.val), l), l)
    ELSE [st |-> Break(s.st), err |-> FALSE, comment |-> FALSE]

\* lines 67-69: errors.New("non-uniform space") builds an error value that is
\* neither returned nor stored; the parser is left as it was
LineNonUniform(sp) == IF sp.ok /\ sp.n = 0 THEN sp.st ELSE sp.st

\* lines 130-132: the indentation rules left for the lines that follow
LineSetLevels(st, l, n) == setLevel(setLevel(st, l, n), st.level, n + 1)

\* lines 130-134: r is the end of the loop; the locals of the call are kept
LineReturn(st, n, l, r) ==
    [st |-> IF r.err THEN r.st ELSE LineSetLevels(r.st, l, n),
     more |-> ~r.err, err |-> r.err,
     loc |-> [start |-> st.pos, stop |-> r.st.pos, n |-> n, l |-> l,
              comment |-> r.comment, adds |-> Len(r.st.events) - Len(st.events)]]

\* lines 80-128: l is the level of the indentation n
LineAtLevel(st, n, s2, l) == LineReturn(st, n, l, LineLoop(SetLevel(s2, l), l))

\* lines 75-78: a comma at the start of the line is skipped
LineSkipComma(st) == IF Peek(st) = COMMA THEN Space(Adv(st)).st ELSE st

\* lines 75-82: s2 is the state after the comma
LineIndent(st, n, s2) == LineAtLevel(st, n, s2, getLevel(s2, n))

\* lines 71-73: e is what End() returned
LineEndOr(st, n, e) ==
    IF e.ok
    THEN [st |-> e.st, more |-> FALSE, err |-> FALSE,
          loc |-> [start |-> st.pos, stop |-> e.st.pos, n |-> n, l |-> 0,
                   comment |-> FALSE, adds |-> 0]]
    ELSE LineIndent(st, n, LineSkipComma(e.st))

\* lines 64-73: sp is what Space() returned
LineSpace(st, sp) == LineEndOr(st, sp.n, End(LineNonUniform(sp)))

Line(st) == LineSpace(st, Space(st))

----------------------------------------------------------------------------
(* The inputs *)

AllSeqs(S, n) == UNION {[1..k -> S] : k \in 0..n}

Indent(k) == [j \in 1..k |-> SP]

\* one-line texts: every string over a scalar, space, comma and parentheses
BodyInputs(n) == AllSeqs({97, SP, COMMA, LPAREN, RPAREN}, n)

\* lines of scalars joined by separators, alone, in a group, after a scalar
Seps == {<<SP>>, <<COMMA>>, <<COMMA, SP>>, <<SP, COMMA>>, <<SP, COMMA, SP>>}

RECURSIVE Chains(_)
Chains(k) ==
    IF k <= 1 THEN {<<97>>}
    ELSE Chains(k - 1) \cup {c \o s \o <<98>> : c \in Chains(k - 1), s \in Seps}

ChainInputs(n) ==
    LET cs == Chains(n)
    IN cs \cup {<<LPAREN>> \o c \o <<RPAREN>> : c \in cs}
          \cup {<<LPAREN, SP>> \o c \o <<SP, RPAREN>> : c \in cs}
          \cup {<<120, LPAREN>> \o c \o <<RPAREN>> : c \in cs}
          \cup {<<120, SP, LPAREN>> \o c \o <<RPAREN, SP, 100>> : c \in cs}
          \cup {<<SP>> \o c \o <<LF, SP, SP>> \o d : c \in cs, d \in cs}

\* texts of several lines: indentation, a body, a line break
LineBodies ==
    { <<97>>, <<97, SP, 98>>, <<HASH, 99>>, <<97, SP, HASH, 99>>,
      <<97, SP, BSLASH>>, <<BSLASH>>, <<>>, <<LPAREN, 97, RPAREN>> }

Breaks == {<<LF>>, <<CR>>, <<CR, LF>>}

RECURSIVE Texts(_, _)
Texts(k, br) ==
    IF k = 0 THEN {<<>>}
    ELSE LET ts == Texts(k - 1, br)
             ls == {Indent(i) \o b : i \in 0..MaxIndent, b \in LineBodies}
         IN ts \cup {t \o br \o l : t \in ts \ {<<>>}, l \in ls} \cup ls

TextInputs(n) ==
    LET ts == UNION {Texts(n, br) : br \in Breaks}
    IN ts \cup {t \o <<LF>> : t \in ts}

\* blocks: an opening line, then lines of text at any indentation
RECURSIVE BlockLines(_)
BlockLines(k) ==
    IF k = 0 THEN {<<>>}
    ELSE BlockLines(k - 1) \cup
         {ls \o Indent(i) \o <<98, LF>> : ls \in BlockLines(k - 1) \ {<<>>}, i \in 0..(MaxIndent + 1)}
         \cup {Indent(i) \o <<98, LF>> : i \in 0..(MaxIndent + 1)}

BlockOpeners == {<<97, SP, BSLASH, LF>>, <<BSLASH, LF>>, <<97, SP, 98, SP, BSLASH, LF>>}

BlockInputs(n) ==
    {pre \o Indent(i) \o op \o ls :
        pre \in {<<>>, <<97, LF>>, <<97, LF, SP, SP, 98, LF>>},
        i \in 0..MaxIndent, op \in BlockOpeners,
        ls \in BlockLines(n)}

\* quoted strings: a delimiter, then every string over a letter, the two
\* delimiters and the backslash
QuotedInputs(n) ==
    {<<q>> \o s : q \in {DQUOTE, SQUOTE},
                  s \in AllSeqs({97, DQUOTE, SQUOTE, BSLASH}, n)}

\* indentation made of spaces and tabs, at the start of a line and of a block
MixedInputs(n) ==
    LET ws == AllSeqs({SP, TAB}, n)
    IN {w \o <<97, LF>> \o v \o <<98>> : w \in ws, v \in ws}
       \cup {<<97, SP, BSLASH, LF>> \o w \o <<98>> : w \in ws}


----------------------------------------------------------------------------
(* The parts that are at rest while another one runs *)

\* no log file is open
NoLog ==
    /\ file = <<>>
    /\ fpos = 0
    /\ added = <<>>
    /\ got = [op |-> "none"]

\* no template has been made
NoTemplate ==
    /\ tpl = <<>>
    /\ ctx = <<>>
    /\ out = <<>>
    /\ seen = <<>>

\* no node with a !type is called
NoFunction ==
    /\ fnode = <<>>
    /\ finit = FALSE
    /\ made = 0
    /\ fres = <<>>

\* no character has been classified
NoChars ==
    /\ ch = 0
    /\ cls = [fn |-> "none"]

\* no production of paths and expressions has run
NoExpr ==
    /\ back = 0
    /\ maxBack = 0
    /\ ungets = 1
    /\ prods = <<>>

\* a parser and its sink after construction
NewParser ==
    /\ pos = 1
    /\ spaces = 0
    /\ ind = <<0>>
    /\ indTop = 0
    /\ level = 0
    /\ lastAdd = -1
    /\ events = <<>>
    /\ calls = <<>>
    /\ lines = <<>>

\* no text is being parsed
NoParser == input = <<>> /\ NewParser

----------------------------------------------------------------------------
(* The state machine: Ogdl() *)

Init ==
    /\ \/ input \in BodyInputs(MaxBody)
       \/ input \in ChainInputs(MaxScalars)
       \/ input \in TextInputs(MaxLines)
       \/ input \in BlockInputs(MaxBlockLines)
       \/ input \in QuotedInputs(MaxQuoted)
       \/ input \in MixedInputs(MaxIndent)
    /\ pos = 1
    /\ spaces = 0
    /\ ind = <<0>>
    /\ indTop = 0
    /\ level = 0
    /\ lastAdd = -1
    /\ events = <<>>
    /\ calls = <<>>
    /\ lines = <<>>
    /\ pc = "parsing"
    /\ NoLog
    /\ NoTemplate
    /\ NoFunction
    /\ NoChars
    /\ NoExpr

\* the parser and the sink as the record the productions work on
Cur ==
    [pos |-> pos, spaces |-> spaces, ind |-> ind, indTop |-> indTop,
     level |-> level, lastAdd |-> lastAdd, events |-> events, calls |-> calls,
     back |-> back, maxBack |-> maxBack, ungets |-> ungets, prods |-> prods,
     abort |-> "none"]

Store(st) ==
    /\ pos' = st.pos
    /\ spaces' = st.spaces
    /\ ind' = st.ind
    /\ indTop' = st.indTop
    /\ level' = st.level
    /\ lastAdd' = st.lastAdd
    /\ events' = st.events
    /\ calls' = st.calls

\* the last two Line() calls are kept
Remember(loc) ==
    lines' = IF lines = <<>> THEN <<loc>> ELSE <<lines[Len(lines)], loc>>

\* Line() returned (true, nil): Ogdl() loops
OgdlMore(r) ==
    /\ r.st.abort = "none" /\ ~r.err /\ r.more
    /\ Store(r.st)
    /\ Remember(r.loc)

LineMore ==
    /\ pc = "parsing"
    /\ OgdlMore(Line(Cur))
    /\ UNCHANGED <<input, pc>>
    /\ UNCHANGED <<logVars, functionVars, templateVars, charVars, exprVars>>

\* Line() returned (false, nil): Ogdl() calls End() and returns nil
OgdlEnd(r) ==
    /\ r.st.abort = "none" /\ ~r.err /\ ~r.more
    /\ Store(End(r.st).st)

LineEnd ==
    /\ pc = "parsing"
    /\ OgdlEnd(Line(Cur))
    /\ pc' = "done"
    /\ UNCHANGED <<input, lines>>
    /\ UNCHANGED <<logVars, functionVars, templateVars, charVars, exprVars>>

\* Line() returned an error: Ogdl() returns it
OgdlErr(r) ==
    /\ r.st.abort = "none" /\ r.err
    /\ Store(r.st)

LineErr ==
    /\ pc = "parsing"
    /\ OgdlErr(Line(Cur))
    /\ pc' = "error"
    /\ UNCHANGED <<input, lines>>
    /\ UNCHANGED <<logVars, functionVars, templateVars, charVars, exprVars>>

\* Quoted() never returns: the stream ended inside the string
LineHang ==
    /\ pc = "parsing"
    /\ Line(Cur).st.abort = "hang"
    /\ pc' = "hang"
    /\ UNCHANGED <<input, pos, spaces, ind, indTop, level, lastAdd, events, calls, lines>>
    /\ UNCHANGED <<logVars, functionVars, templateVars, charVars, exprVars>>

\* Block() panics on non-uniform space at the beginning of the block
LinePanic ==
    /\ pc = "parsing"
    /\ Line(Cur).st.abort = "panic"
    /\ pc' = "panic"
    /\ UNCHANGED <<input, pos, spaces, ind, indTop, level, lastAdd, events, calls, lines>>
    /\ UNCHANGED <<logVars, functionVars, templateVars, charVars, exprVars>>

Next == LineMore \/ LineEnd \/ LineErr \/ LineHang \/ LinePanic

Spec == Init /\ [][Next]_vars

----------------------------------------------------------------------------
(* The log file: Log (Add, AddBinary, Get, GetBinary) *)

\* A tree is the pre-order list of its nodes, each with its level (children
\* of the root are at level 1) and its string payload.
Payloads == {<<97>>, <<97, 98>>}

Node(l, v) == [lev |-> l, val |-> v]

Trees ==
    {<<>>}
    \cup {<<Node(1, v)>> : v \in Payloads}
    \cup {<<Node(1, <<97>>), Node(2, <<98>>)>>}

\* the binary form: the header, one line per node (level, type 1 = string,
\* length, payload) and the line of level 0 that ends the object
Header == <<1, 71, 0>>

RECURSIVE BinaryLines(_)
BinaryLines(g) ==
    IF g = <<>> THEN <<>>
    ELSE <<g[1].lev, 1, Len(g[1].val)>> \o g[1].val \o BinaryLines(Tail(g))

Binary(g) == Header \o BinaryLines(g) \o <<0>>

\* the objects handed over in binary form
Binaries == {Binary(g) : g \in {<<>>, <<Node(1, <<98>>)>>}}

\* the byte of the file at offset o (0-based), -1 past the end
ByteAt(f, o) == IF o >= 0 /\ o < Len(f) THEN f[o + 1] ELSE -1

\* BinParser.header(): the three bytes of the magic and the version
header(f, i) ==
    ByteAt(f, i) = Header[1] /\ ByteAt(f, i + 1) = Header[2] /\ ByteAt(f, i + 2) = Header[3]

\* BinParser.line() until the line of level 0: the nodes read and the offset
\* after the last byte consumed
RECURSIVE ParseLines(_, _, _)
ParseLines(f, o, g) ==
    IF ByteAt(f, o) <= 0
    THEN [g |-> g, end |-> IF o < Len(f) THEN o + 1 ELSE o]
    ELSE ParseLines(f, o + 3 + ByteAt(f, o + 2),
                    Append(g, Node(ByteAt(f, o), SubSeq(f, o + 4, o + 3 + ByteAt(f, o + 2)))))

\* BinParser.Parse() from offset i: the tree and p.n, the bytes consumed
\* (none when the header is not there)
Parse(f, i) ==
    IF header(f, i) THEN ParseLines(f, i + 3, <<>>) ELSE [g |-> <<>>, end |-> i]

\* os.File.Seek(offset, whence) on a file f whose position is p
Seek_Stay(f, p, offset, whence) == p
Seek(f, p, offset, whence) == IF whence = 2 THEN Len(f) + offset ELSE offset

\* os.File.Write(b) at position p: overwrites, and extends the file
Write(f, p, b) == SubSeq(f, 1, p) \o b \o SubSeq(f, p + Len(b) + 1, Len(f))

\* the body of Add and AddBinary once the bytes are there: i is the position
\* Seek(0, 2) returned
Append_(i, b, how) ==
    /\ file' = Write(file, i, b)
    /\ fpos' = i + Len(b)
    /\ added' = Append(added, [op |-> how, off |-> i, b |-> b, before |-> Len(file)])

\* the offsets a caller holds: those returned so far, and the end of the file
Offsets == {added[j].off : j \in 1..Len(added)} \cup {Len(file)}

\* Log.Add(g)
LogAdd ==
    /\ pc = "log" /\ Len(added) < MaxRecords
    /\ \E g \in Trees : Append_(Seek(file, fpos, 0, 2), Binary(g), "Add")
    /\ UNCHANGED <<got, parserVars, templateVars, functionVars, charVars, exprVars>>

\* Log.AddBinary(b)
LogAddBinary ==
    /\ pc = "log" /\ Len(added) < MaxRecords
    /\ \E b \in Binaries : Append_(Seek(file, fpos, 0, 2), b, "AddBinary")
    /\ UNCHANGED <<got, parserVars, templateVars, functionVars, charVars, exprVars>>

\* Get: what is returned once Parse() has run from offset i
GetReturn(i, r) ==
    [op |-> "Get", at |-> i, g |-> r.g, b |-> <<>>,
     next |-> IF r.end - i = 0 THEN -1 ELSE i + (r.end - i)]

\* Log.Get(i).  The parser reads through the handle: the file position is
\* left at the end of what it consumed, or further on if it reads ahead.
LogGet ==
    /\ pc = "log"
    /\ \E i \in Offsets :
          /\ got' = GetReturn(Seek(file, fpos, i, 0), Parse(file, i))
          /\ \E p \in {Parse(file, i).end, Len(file)} : fpos' = p
    /\ UNCHANGED <<file, added, parserVars, templateVars, functionVars, charVars, exprVars>>

\* GetBinary: what is returned once the lines have been read from offset i
GetBinaryReturn(i, n) ==
    [op |-> "GetBinary", at |-> i, g |-> <<>>, b |-> SubSeq(file, i + 1, i + n), next |-> n]

\* Log.GetBinary(i)
LogGetBinary ==
    /\ pc = "log"
    /\ \E i \in Offsets :
          /\ got' = IF header(file, i)
                    THEN GetBinaryReturn(Seek(file, fpos, i, 0), Parse(file, i).end - i)
                    ELSE [op |-> "GetBinary", at |-> i, g |-> <<>>, b |-> <<>>, next |-> 0]
          /\ \E p \in {Parse(file, i).end, Len(file)} : fpos' = p
    /\ UNCHANGED <<file, added, parserVars, templateVars, functionVars, charVars, exprVars>>

\* OpenLog(file): the file is new, or it holds the records of an earlier run
InitLog ==
    /\ NoParser
    /\ NoTemplate
    /\ NoFunction
    /\ NoChars
    /\ NoExpr
    /\ pc = "log"
    /\ \/ file = <<>>
       \/ file \in Binaries
    /\ fpos = 0
    /\ added = <<>>
    /\ got = [op |-> "none"]

NextLog == LogAdd \/ LogAddBinary \/ LogGet \/ LogGetBinary

SpecLog == InitLog /\ [][NextLog]_vars

----------------------------------------------------------------------------
(* The template engine: NewTemplate (Template, simplify, flow) and Process *)

\* the payloads that tag the nodes of a parsed template, as strings
TypePath == <<33, 112>>
TypeExpression == <<33, 101>>
TypeGroup == <<33, 103>>
TypeTemplate == <<33, 116>>
TypeIf == <<33, 105, 102>>
TypeElse == <<33, 101, 108, 115, 101>>
TypeEnd == <<33, 101, 110, 100>>
TypeFor == <<33, 102, 111, 114>>
TypeBreak == <<33, 98, 114, 101, 97, 107>>

\* the names simplify() looks for: if, else, end, for, break
KwIf == <<105, 102>>
KwElse == <<101, 108, 115, 101>>
KwEnd == <<101, 110, 100>>
KwFor == <<102, 111, 114>>
KwBreak == <<98, 114, 101, 97, 107>>

\* A Graph node: its payload This (as the string String() gives), its
\* children Out, and the place it had in the list the parser delivered.
Graph(this, id, outs) == [this |-> this, id |-> id, out |-> outs]

NilGraph == Graph(<<>>, 0, <<>>)

\* g.GetAt(i): the i-th child (from 0), nil if there is none
GetAt(g, i) == IF i >= 0 /\ i + 1 <= Len(g.out) THEN g.out[i + 1] ELSE NilGraph

\* the list l without its element at index i (from 0): DeleteAt(i)
DeleteAt(l, i) == SubSeq(l, 1, i) \o SubSeq(l, i + 2, Len(l))

\* ev.AddBytes(b): like Add, with a byte array as payload
AddBytes(st, b) == Add(st, b)

\* the tags of an index and of a selector
TypeIndex == <<33, 105>>
TypeSelector == <<33, 115>>

----------------------------------------------------------------------------
(* productions.go: tokens, numbers, operators, paths and expressions.  The  *)
(* reader is followed call by call here: Read() and Unread() are counted.   *)

\* The state after Read(): the byte read is Peek(st).
Read(st) == [Adv(st) EXCEPT !.back = 0]

\* Unread(): the reader steps back while it can honour the call; a call
\* beyond what it can honour leaves the position where it is.
Unread(st) ==
    [st EXCEPT !.pos = IF st.back < st.ungets THEN @ - 1 ELSE @,
               !.back = @ + 1,
               !.maxBack = IF st.back + 1 > @ THEN st.back + 1 ELSE @]

\* NextByteIs(c): the next byte is consumed if it is c, pushed back if not
NextByteIs(st, c) == IF Peek(st) = c THEN Read(st) ELSE Unread(Read(st))

\* ev.Dec(): one level up, never above the top
Dec(st) == [st EXCEPT !.level = IF @ > 0 THEN @ - 1 ELSE 0]

\* ev.Delete(): the most recent node added at the current depth goes, with
\* what was added below it
Delete(st) ==
    [st EXCEPT !.events =
        SubSeq(@, 1, Len(@) - Cardinality({k \in 1..Len(@) :
                        \E j \in 1..k : /\ @[j].lev = st.level
                                        /\ \A i \in (j + 1)..Len(@) : @[i].lev > st.level}))]

\* unicode.IsLetter and unicode.IsDigit on the code points below 256
IsLetter(c) ==
    \/ c \in 65..90 \/ c \in 97..122
    \/ c \in {170, 181, 186} \/ c \in 192..214 \/ c \in 216..246 \/ c \in 248..255

IsDigit(c) == c \in 48..57

IsTokenChar(c) == IsLetter(c) \/ IsDigit(c) \/ c = 95

\* Token: a run of letters, digits and _
RECURSIVE TokenLoop(_, _)
TokenLoop(st, buf) ==
    IF ~IsTokenChar(Peek(st))
    THEN [st |-> Unread(Read(st)), ok |-> TRUE, val |-> buf]
    ELSE TokenLoop(Read(st), Append(buf, Byte(Peek(st))))

Token(st) ==
    IF ~IsTokenChar(Peek(st))
    THEN [st |-> Unread(Read(st)), ok |-> FALSE, val |-> <<>>]
    ELSE TokenLoop(Read(st), <<Byte(Peek(st))>>)

\* Number: the loop of lines 657-664
RECURSIVE NumberLoop(_, _)
NumberLoop(st, buf) ==
    IF ~IsDigit(Peek(st)) /\ Peek(st) # 46
    THEN [st |-> Unread(Read(st)), ok |-> TRUE, val |-> buf]
    ELSE NumberLoop(Read(st), Append(buf, Byte(Peek(st))))

\* lines 645-651: st is the state after the minus sign was read
NumberSign(st) ==
    IF ~IsDigit(Peek(st))
    THEN [st |-> Unread(Unread(Read(st))), ok |-> FALSE, val |-> <<>>]
    ELSE NumberLoop(Unread(Read(st)), <<45>>)

Number(st) ==
    IF IsDigit(Peek(st)) THEN NumberLoop(Read(st), <<Byte(Peek(st))>>)
    ELSE IF Peek(st) # 45 THEN [st |-> Unread(Read(st)), ok |-> FALSE, val |-> <<>>]
    ELSE NumberSign(Read(st))

\* Operator: a run of operator characters
RECURSIVE OperatorLoop(_, _)
OperatorLoop(st, buf) ==
    IF ~IsOperatorChar(Peek(st))
    THEN [st |-> Unread(Read(st)), ok |-> TRUE, val |-> buf]
    ELSE OperatorLoop(Read(st), Append(buf, Byte(Peek(st))))

Operator(st) ==
    IF ~IsOperatorChar(Peek(st))
    THEN [st |-> Unread(Read(st)), ok |-> FALSE, val |-> <<>>]
    ELSE OperatorLoop(Read(st), <<Byte(Peek(st))>>)

\* What is kept of a production's return: its name, the line of the return,
\* what it returned, and the sink against the sink st0 it was entered with.
Returns(st, fn, line, ok, st0) ==
    [st EXCEPT !.prods = Append(@, [fn |-> fn, line |-> line, ok |-> ok,
                                    levIn |-> st0.level, levOut |-> st.level,
                                    added |-> Len(st.events) - Len(st0.events),
                                    same |-> st.events = st0.events])]

RECURSIVE Expression(_), ExpressionFirst(_, _), ExpressionLoop(_, _), ExpressionOp(_, _),
          ExpressionOperand(_, _), UnaryExpression(_), UnaryNumber(_), UnaryQuoted(_),
          UnaryOperator(_), UnaryGroup(_), UnaryClose(_), Path(_), PathLoop(_, _, _), PathDot(_, _, _, _),
          PathElement(_, _), PathQuoted(_, _), PathNumber(_, _), PathToken(_, _),
          PathIndex(_, _), PathSelector(_, _), PathArgs(_, _), Index(_), Selector(_),
          IndexClose(_, _), SelectorClose(_, _), ArgsClose(_, _),
          Args(_), ArgList(_), ArgListLoop(_, _), ArgListSpace(_, _), ArgListTrial(_, _, _)

\* Expression := expr1 (op2 expr1)*
Expression(st) == ExpressionFirst(st, UnaryExpression(st))

\* lines 698-700: u is what the first UnaryExpression() returned
ExpressionFirst(st0, u) ==
    IF ~u.ok
    THEN [st |-> Returns(u.st, "Expression", 699, FALSE, st0), ok |-> FALSE]
    ELSE ExpressionLoop(st0, u.st)

\* lines 702-704
ExpressionLoop(st0, st) == ExpressionOp(st0, Operator(Space(st).st))

\* lines 705-711: o is what Operator() returned
ExpressionOp(st0, o) ==
    IF ~o.ok
    THEN [st |-> Returns(o.st, "Expression", 708, TRUE, st0), ok |-> TRUE]
    ELSE ExpressionOperand(st0, UnaryExpression(Space(Add(o.st, o.val)).st))

\* lines 711-714: u is what UnaryExpression() returned for the operand
ExpressionOperand(st0, u) ==
    IF ~u.ok
    THEN [st |-> Returns(u.st, "Expression", 712, FALSE, st0), ok |-> FALSE]
    ELSE ExpressionLoop(st0, Space(u.st).st)

\* UnaryExpression, lines 722-731: a letter begins a path
UnaryExpression(st) ==
    IF IsLetter(Peek(st))
    THEN [st |-> Dec(Path(Inc(Add(Unread(Read(st)), TypePath))).st), ok |-> TRUE]
    ELSE UnaryNumber(Number(Unread(Read(st))))

\* lines 733-737: n is what Number() returned
UnaryNumber(n) ==
    IF n.ok THEN [st |-> Add(n.st, n.val), ok |-> TRUE] ELSE UnaryQuoted(Quoted(n.st))

\* lines 739-743: q is what Quoted() returned
UnaryQuoted(q) ==
    IF q.ok THEN [st |-> Add(q.st, q.val), ok |-> TRUE] ELSE UnaryOperator(Operator(q.st))

\* lines 745-748: o is what Operator() returned
UnaryOperator(o) == UnaryGroup(IF o.ok THEN Add(o.st, o.val) ELSE o.st)

\* lines 750-762: a group in parentheses, or else a path
UnaryGroup(st) ==
    IF Peek(st) # LPAREN
    THEN Path(NextByteIs(st, LPAREN))
    ELSE UnaryClose(Dec(Space(Expression(Space(Inc(Add(Read(st), TypeGroup))).st).st).st))

\* line 759
UnaryClose(st) == [st |-> NextByteIs(st, RPAREN), ok |-> Peek(st) = RPAREN]

\* Path, lines 158-169
Path(st) ==
    IF ~IsLetter(Peek(st))
    THEN [st |-> Unread(Read(st)), ok |-> FALSE]
    ELSE PathLoop(Unread(Read(st)), TRUE, FALSE)

\* line 179: NextByteIs('.') is called first, whatever begin is
PathLoop(st, begin, anything) ==
    PathDot(NextByteIs(st, 46), Peek(st) = 46, begin, anything)

\* lines 179-190: without a dot, past the beginning, only a bracket goes on
PathDot(st, dot, begin, anything) ==
    IF dot \/ begin THEN PathElement(st, anything)
    ELSE IF Peek(st) # 91 /\ Peek(st) # LPAREN /\ Peek(st) # 123
    THEN [st |-> Unread(Read(st)), ok |-> anything]
    ELSE PathElement(Unread(Read(st)), anything)

\* lines 192-197
PathElement(st, anything) == PathQuoted(Quoted(st), anything)

PathQuoted(q, anything) ==
    IF q.ok THEN PathLoop(Add(q.st, q.val), FALSE, TRUE)
    ELSE PathNumber(Number(q.st), anything)

\* lines 199-204: n is what Number() returned
PathNumber(n, anything) ==
    IF n.ok THEN PathLoop(Add(n.st, n.val), FALSE, TRUE)
    ELSE PathToken(Token(n.st), anything)

\* lines 206-211: t is what Token() returned
PathToken(t, anything) ==
    IF t.ok THEN PathLoop(Add(t.st, t.val), FALSE, TRUE)
    ELSE PathIndex(Index(t.st), anything)

\* lines 213-216: i is what Index() returned
PathIndex(i, anything) ==
    IF i.ok THEN PathLoop(i.st, FALSE, TRUE) ELSE PathSelector(Selector(i.st), anything)

\* lines 218-221: r is what Selector() returned
PathSelector(r, anything) ==
    IF r.ok THEN PathLoop(r.st, FALSE, TRUE) ELSE PathArgs(Args(r.st), anything)

\* lines 223-236: a is what Args() returned
PathArgs(a, anything) ==
    IF a.ok THEN PathLoop(a.st, FALSE, TRUE)
    ELSE IF a.err THEN [st |-> a.st, ok |-> FALSE]
    ELSE [st |-> a.st, ok |-> anything]

\* lines 857-863 with the level left where the expression left it
IndexClose_NoSetLevel(st0, st) ==
    IF Peek(st) # 93
    THEN [st |-> Returns(NextByteIs(st, 93), "Index", 858, FALSE, st0), ok |-> FALSE]
    ELSE [st |-> Returns(NextByteIs(st, 93), "Index", 863, TRUE, st0), ok |-> TRUE]

\* lines 857-863: st0 is the parser when Index() was entered
IndexClose(st0, st) ==
    IF Peek(st) # 93
    THEN [st |-> Returns(NextByteIs(st, 93), "Index", 858, FALSE, st0), ok |-> FALSE]
    ELSE [st |-> Returns(SetLevel(NextByteIs(st, 93), st0.level), "Index", 863, TRUE, st0),
          ok |-> TRUE]

\* Index ::= '[' expression ']'
Index(st) ==
    IF Peek(st) # 91
    THEN [st |-> NextByteIs(st, 91), ok |-> FALSE]
    ELSE IndexClose(st, Space(Expression(Space(Inc(Add(Read(st), TypeIndex))).st).st).st)

\* lines 882-888: st0 is the parser when Selector() was entered
SelectorClose(st0, st) ==
    IF Peek(st) # 125
    THEN [st |-> Returns(NextByteIs(st, 125), "Selector", 883, FALSE, st0), ok |-> FALSE]
    ELSE [st |-> Returns(SetLevel(NextByteIs(st, 125), st0.level), "Selector", 888, TRUE, st0),
          ok |-> TRUE]

\* Selector ::= '{' expression? '}'
Selector(st) ==
    IF Peek(st) # 123
    THEN [st |-> NextByteIs(st, 123), ok |-> FALSE]
    ELSE SelectorClose(st, Space(Expression(Space(Inc(Add(Read(st), TypeSelector))).st).st).st)

\* lines 907-913: st0 is the parser when Args() was entered
ArgsClose(st0, st) ==
    IF Peek(st) # RPAREN
    THEN [st |-> Returns(NextByteIs(st, RPAREN), "Args", 908, FALSE, st0),
          ok |-> FALSE, err |-> TRUE]
    ELSE [st |-> Returns(SetLevel(NextByteIs(st, RPAREN), st0.level), "Args", 913, TRUE, st0),
          ok |-> TRUE, err |-> FALSE]

\* Args ::= '(' space? sequence? space? ')'
Args(st) ==
    IF Peek(st) # LPAREN
    THEN [st |-> NextByteIs(st, LPAREN), ok |-> FALSE, err |-> FALSE]
    ELSE ArgsClose(st, Space(ArgList(Space(Inc(Add(Read(st), TypeGroup))).st).st).st)

\* ArgList: the loop of lines 927-942
ArgList(st) == ArgListLoop(st, FALSE)

ArgListLoop(st, something) == ArgListSpace(Space(st).st, something)

\* lines 930-932: the trial Expression() below a new expression node
ArgListSpace(st, something) ==
    ArgListTrial(st, Expression(Inc(Add(st, TypeExpression))), something)

\* lines 932-941: e is what Expression() returned, st0 the parser before the
\* expression node was added
ArgListTrial(st0, e, something) ==
    IF ~e.ok
    THEN [st |-> Returns(Delete(Dec(e.st)), "ArgList", 935, FALSE, st0), ok |-> something]
    ELSE ArgListLoop(NextByteIs(Space(Dec(e.st)).st, COMMA), TRUE)

\* Text: the run of template text characters from the reader's position
RECURSIVE TextLoop(_, _)
TextLoop(st, buf) ==
    IF ~IsTemplateTextChar(Peek(st))
    THEN [st |-> AddBytes(st, buf), ok |-> TRUE]
    ELSE TextLoop(Adv(st), Append(buf, Byte(Peek(st))))

Text(st) ==
    IF ~IsTemplateTextChar(Peek(st))
    THEN [st |-> st, ok |-> FALSE]
    ELSE TextLoop(Adv(st), <<Byte(Peek(st))>>)

\* lines 835-837: st0 is the parser when Variable() was entered
VariableReturn(st0, st) ==
    [st |-> Returns(SetLevel(st, st0.level), "Variable", 837, TRUE, st0), ok |-> TRUE]

\* lines 812-832: st is the parser after the Unread() of line 808; the byte
\* read at line 812 is Peek(st)
VariableBody(st0, st) ==
    IF Peek(st) = LPAREN
    THEN VariableReturn(st0,
            Read(Space(Expression(Inc(Add(Read(st), TypeExpression))).st).st))
    ELSE IF Peek(st) = 123
    THEN VariableReturn(st0,
            Read(Space(Path(Space(Inc(Add(Read(st), TypePath))).st).st).st))
    ELSE VariableReturn(st0, Path(Inc(Add(Unread(Read(st)), TypePath))).st)

\* Variable: no $ here, the escaped dollar sign, or a reference to a path or
\* to an expression
Variable(st) ==
    IF Peek(st) # DOLLAR
    THEN [st |-> Unread(Read(st)), ok |-> FALSE]
    ELSE IF Peek(Read(st)) = BSLASH
    THEN [st |-> Returns(Add(Read(Read(st)), <<DOLLAR>>), "Variable", 805, TRUE, st), ok |-> TRUE]
    ELSE VariableBody(st, Unread(Read(Read(st))))

\* Template ::= (Text | Variable)*
RECURSIVE Template(_), TemplateText(_, _), TemplateVariable(_)
Template(st) == IF st.abort # "none" THEN st ELSE TemplateText(st, Text(st))

TemplateText(st, r) == IF r.ok THEN Template(r.st) ELSE TemplateVariable(Variable(st))

TemplateVariable(r) == IF r.ok THEN Template(r.st) ELSE r.st

\* GraphTop: the tree of the nodes added to the sink, each below the last
\* node before it that is less deep
RECURSIVE SubEnd(_, _, _)
SubEnd(evs, k, j) ==
    IF j + 1 <= Len(evs) /\ evs[j + 1].lev > evs[k].lev THEN SubEnd(evs, k, j + 1) ELSE j

RECURSIVE Nest(_, _, _), NestFrom(_, _, _, _)
Nest(evs, from, to) ==
    IF from > to THEN <<>> ELSE NestFrom(evs, from, to, SubEnd(evs, from, from))

NestFrom(evs, from, to, e) ==
    <<Graph(evs[from].val, from, Nest(evs, from + 1, e))>> \o Nest(evs, e + 1, to)

GraphTop(evs) == Nest(evs, 1, Len(evs))

\* simplify: the keyword tag for the first element of a path, <<>> if it is
\* no keyword
Keyword(s) ==
    IF s = KwIf THEN TypeIf
    ELSE IF s = KwEnd THEN TypeEnd
    ELSE IF s = KwElse THEN TypeElse
    ELSE IF s = KwFor THEN TypeFor
    ELSE IF s = KwBreak THEN TypeBreak
    ELSE <<>>

\* simplify: one node of t.Out
Retag_KeepFirst(node, tag) == IF tag = <<>> THEN node ELSE [node EXCEPT !.this = tag]
Retag(node, tag) ==
    IF tag = <<>> THEN node ELSE [node EXCEPT !.this = tag, !.out = DeleteAt(@, 0)]

simplifyNode(node) ==
    IF node.this = TypePath THEN Retag(node, Keyword(GetAt(node, 0).this)) ELSE node

simplify(t) == [k \in 1..Len(t) |-> simplifyNode(t[k])]

\* flow: nod points to the Template child of the If or For at t.Out[at], or
\* to the Else at t.Out[at] itself
Nod(at, child) == [at |-> at, child |-> child]

\* nod.Add(node)
AddToNod(t, nod, node) ==
    IF nod.child = 0
    THEN [t EXCEPT ![nod.at].out = Append(@, node)]
    ELSE [t EXCEPT ![nod.at].out[nod.child].out = Append(@, node)]

\* the children of nod
NodOut(t, nod) ==
    IF nod.child = 0 THEN t[nod.at].out ELSE t[nod.at].out[nod.child].out

\* nod.flow() has turned the children of nod into fl
SetNodOut(t, nod, fl) ==
    IF nod.child = 0
    THEN [t EXCEPT ![nod.at].out = fl]
    ELSE [t EXCEPT ![nod.at].out[nod.child].out = fl]

\* flow: the loop over t.Out, k being i + 1, and its branches
RECURSIVE flowLoop(_, _, _, _), flowOpen(_, _, _, _), flowElse(_, _, _, _),
          flowEnd(_, _, _, _), flowRest(_, _, _, _)
flowLoop(t, k, n, nod) ==
    IF k > Len(t) THEN t
    ELSE IF t[k].this = TypeIf \/ t[k].this = TypeFor THEN flowOpen(t, k, n + 1, nod)
    ELSE IF t[k].this = TypeElse THEN flowElse(t, k, n, nod)
    ELSE IF t[k].this = TypeEnd THEN flowEnd(t, k, n - 1, nod)
    ELSE flowRest(t, k, n, nod)

\* an If or For, n counted: the outermost gets its Template child
flowOpen(t, k, n, nod) ==
    IF n = 1
    THEN flowLoop([t EXCEPT ![k].out = Append(@, Graph(TypeTemplate, 0, <<>>))],
                  k + 1, n, Nod(k, Len(t[k].out) + 1))
    ELSE flowRest(t, k, n, nod)

\* an Else: at the level of the open block it takes over from the Template
flowElse(t, k, n, nod) ==
    IF n = 1
    THEN flowLoop(SetNodOut(t, nod, flowLoop(NodOut(t, nod), 1, 0, Nod(0, 0))),
                  k + 1, n, Nod(k, 0))
    ELSE flowRest(t, k, n, nod)

\* an End, n counted: the one that closes the open block is deleted
flowEnd_NoNest(t, k, n, nod) ==
    IF n = 0
    THEN flowLoop(DeleteAt(t, k - 1), k, n, nod)
    ELSE flowRest(t, k, n, nod)
flowEnd(t, k, n, nod) ==
    IF n = 0
    THEN flowLoop(DeleteAt(SetNodOut(t, nod, flowLoop(NodOut(t, nod), 1, 0, Nod(0, 0))), k - 1),
                  k, n, nod)
    ELSE flowRest(t, k, n, nod)

\* inside an open block the node moves below nod
flowRest(t, k, n, nod) ==
    IF n > 0
    THEN flowLoop(DeleteAt(AddToNod(t, nod, t[k]), k - 1), k, n, nod)
    ELSE flowLoop(t, k + 1, n, nod)

flow(t) == flowLoop(t, 1, 0, Nod(0, 0))

\* The evaluator, as far as process() uses it.  A value is a graph (with its
\* payload and the payloads of its children) or not a graph (a string); the
\* context c gives the value of each name, and a name it does not hold has
\* the null value.
Value(graph, this, outs) == [graph |-> graph, this |-> this, out |-> outs]

Null == Value(FALSE, <<>>, <<>>)

\* the name a path !p[name], or an expression !e[!p[name]], refers to
PathName(n) ==
    IF n.this = TypeExpression THEN GetAt(GetAt(n, 0), 0).this ELSE GetAt(n, 0).this

\* c.Eval(n)
Eval(c, n) == IF PathName(n) \in DOMAIN c THEN c[PathName(n)] ELSE Null

\* c.EvalBool(n): empty and zero are false
EvalBool(c, n) ==
    IF Eval(c, n).graph
    THEN Eval(c, n).this # <<>> \/ Eval(c, n).out # <<>>
    ELSE Eval(c, n).this # <<>> /\ Eval(c, n).this # <<48>>

\* c.assign(path, ee, '='): the name of the path now holds the element ee
assign(c, path, ee) ==
    [x \in DOMAIN c \cup {PathName(path)} |->
        IF x = PathName(path) THEN Value(TRUE, ee, <<>>) ELSE c[x]]

\* g.Text(): the payloads of the graph, the root's first
RECURSIVE Flatten(_)
Flatten(ss) == IF ss = <<>> THEN <<>> ELSE ss[1] \o Flatten(Tail(ss))

GraphText(v) == v.this \o Flatten(v.out)

\* what process() writes for the value of a path
Render(v) == IF v.graph THEN GraphText(v) ELSE v.this

\* process: the buffer, the context and the nodes come to so far
WriteString(st, s) == [st EXCEPT !.buf = @ \o s]

See(st, n) == [st EXCEPT !.seen = Append(@, n.id)]

Assigned(st, path, ee) == [st EXCEPT !.c = assign(@, path, ee)]

\* process: the loop over t.Out, the node t[k] and the cases of the switch;
\* the result is the state and the value returned (true: break)
RECURSIVE processLoop(_, _, _, _), processNode(_, _, _, _, _), processIf(_, _, _, _, _),
          processElse(_, _, _, _, _), processFor(_, _, _, _, _, _, _),
          processIter(_, _, _, _, _, _, _), processBody(_, _)
processLoop(t, k, st, falseIf) ==
    IF k > Len(t) \/ st.abort # "none"
    THEN [st |-> st, brk |-> FALSE]
    ELSE processNode(t, k, t[k], See(st, t[k]), falseIf)

processNode(t, k, n, st, falseIf) ==
    IF n.this = TypePath
    THEN processLoop(t, k + 1, WriteString(st, Render(Eval(st.c, n))), falseIf)
    ELSE IF n.this = TypeExpression
    THEN processLoop(t, k + 1, st, falseIf)
    ELSE IF n.this = TypeIf
    THEN processIf(t, k, n, st, EvalBool(st.c, GetAt(GetAt(n, 0), 0)))
    ELSE IF n.this = TypeElse
    THEN processElse(t, k, n, st, falseIf)
    ELSE IF n.this = TypeFor
    THEN IF ~Eval(st.c, GetAt(GetAt(n, 0), 1)).graph
         THEN [st |-> st, brk |-> TRUE]
         ELSE processFor(t, k, n, Eval(st.c, GetAt(GetAt(n, 0), 1)).out, 1, st, falseIf)
    ELSE IF n.this = TypeBreak
    THEN [st |-> st, brk |-> TRUE]
    ELSE processLoop(t, k + 1, WriteString(st, n.this), falseIf)

\* n.GetAt(1).process(c, buffer): a node that is not there cannot be processed
processBody(n, st) ==
    IF Len(n.out) < 2
    THEN [st |-> Abort(st, "panic"), brk |-> FALSE]
    ELSE processLoop(GetAt(n, 1).out, 1, st, FALSE)

\* case TypeIf: what the body returns is dropped
processIf_FlagKept(t, k, n, st, b) ==
    IF b
    THEN processLoop(t, k + 1, processBody(n, st).st, TRUE)
    ELSE processLoop(t, k + 1, st, TRUE)
processIf(t, k, n, st, b) ==
    IF b
    THEN processLoop(t, k + 1, processBody(n, st).st, FALSE)
    ELSE processLoop(t, k + 1, st, TRUE)

\* case TypeElse
processElse(t, k, n, st, falseIf) ==
    IF falseIf
    THEN processLoop(t, k + 1, processLoop(n.out, 1, st, FALSE).st, FALSE)
    ELSE processLoop(t, k + 1, st, falseIf)

\* case TypeFor: the loop over the elements of the graph
processFor(t, k, n, elems, j, st, falseIf) ==
    IF j > Len(elems)
    THEN processLoop(t, k + 1, st, falseIf)
    ELSE processIter(t, k, n, elems, j,
                     processBody(n, Assigned(st, GetAt(GetAt(GetAt(n, 0), 0), 0), elems[j])),
                     falseIf)

processIter(t, k, n, elems, j, r, falseIf) ==
    IF r.brk
    THEN processLoop(t, k + 1, r.st, falseIf)
    ELSE processFor(t, k, n, elems, j + 1, r.st, falseIf)

\* t.process(c, buffer) from Process()
process(t, c) ==
    processLoop(t, 1, [buf |-> <<>>, c |-> c, seen |-> <<>>, abort |-> "none"], FALSE)

\* The templates explored.  The texts hold no reference to a variable; the
\* lists of nodes are what Template() delivers for the directives $if(g),
\* $else, $end, $for(d, s), $break, for a path $name and an expression $(name),
\* with text between them.

TemplateTexts(n) == AllSeqs({97, LF, TAB, 1, DOLLAR, BSLASH}, n)

Tok(s) == Graph(s, 0, <<>>)

PathOf(name) == Graph(TypePath, 0, <<Tok(name)>>)

ExprOf(name) == Graph(TypeExpression, 0, <<PathOf(name)>>)

GroupOf(names) == Graph(TypeGroup, 0, [k \in 1..Len(names) |-> ExprOf(names[k])])

Directive(kw, args) == Graph(TypePath, 0, <<Tok(kw)>> \o args)

NameX == <<120>>
NameY == <<121>>
NameI == <<105>>
NameL == <<108>>

TxtA == Graph(<<97>>, 0, <<>>)
DIf(g) == Directive(KwIf, <<GroupOf(<<g>>)>>)
DFor(d, s) == Directive(KwFor, <<GroupOf(<<d, s>>)>>)
DElse == Directive(KwElse, <<>>)
DEnd == Directive(KwEnd, <<>>)
DBreak == Directive(KwBreak, <<>>)

\* the context: x is true, y is false, l is a list of two elements
Ctx0 ==
    [name \in {NameX, NameY, NameL} |->
        IF name = NameX THEN Value(FALSE, <<49>>, <<>>)
        ELSE IF name = NameY THEN Value(FALSE, <<48>>, <<>>)
        ELSE Value(TRUE, <<>>, <<<<98>>, <<99>>>>)]

\* every node of the list carries its place in it
Numbered(t) == [k \in 1..Len(t) |-> [t[k] EXCEPT !.id = k]]

\* any list of nodes, balanced or not
NodeLists(n) ==
    AllSeqs({TxtA, DIf(NameX), DFor(NameI, NameL), DElse, DEnd, DBreak,
             PathOf(NameX), ExprOf(NameX)}, n)

\* blocks nested up to a depth: an If or a For around a shallower block, with
\* or without an Else part, with or without text after it
Heads == {DIf(NameX), DIf(NameY), DFor(NameI, NameL), DFor(NameI, NameX)}

ElseParts == {<<>>, <<DElse, TxtA>>, <<DElse, DBreak>>}

RECURSIVE Blocks(_)
Blocks(d) ==
    IF d = 0
    THEN {<<TxtA>>, <<DBreak>>, <<DBreak, TxtA>>, <<PathOf(NameI)>>}
    ELSE Blocks(d - 1) \cup
         {<<h>> \o b \o e \o <<DEnd>> \o tl :
             h \in Heads, b \in Blocks(d - 1), e \in ElseParts, tl \in {<<>>, <<TxtA>>}}

----------------------------------------------------------------------------
(* The state machine: NewTemplate() step by step, then Process() *)

InitTemplate ==
    /\ \/ input \in TemplateTexts(MaxText) /\ tpl = <<>> /\ pc = "template"
       \/ input = <<>> /\ tpl \in {Numbered(t) : t \in NodeLists(MaxNodes) \ {<<>>}} /\ pc = "parsed"
       \/ input = <<>> /\ tpl \in {Numbered(t) : t \in Blocks(MaxDepth)} /\ pc = "parsed"
    /\ NewParser
    /\ NoLog
    /\ NoFunction
    /\ NoChars
    /\ NoExpr
    /\ ctx = Ctx0
    /\ out = <<>>
    /\ seen = <<>>

\* p.Template(); t := p.GraphTop(TypeTemplate)
Parsed(st) ==
    /\ st.abort = "none"
    /\ Store(st)
    /\ tpl' = GraphTop(st.events)

ParseTemplate ==
    /\ pc = "template"
    /\ Parsed(Template(Cur))
    /\ pc' = "parsed"
    /\ UNCHANGED <<input, lines, logVars, functionVars, ctx, out, seen, charVars, exprVars>>

\* t.simplify()
Simplify ==
    /\ pc = "parsed"
    /\ tpl' = simplify(tpl)
    /\ pc' = "simplified"
    /\ UNCHANGED <<input, pos, spaces, ind, indTop, level, lastAdd, events, calls, lines>>
    /\ UNCHANGED <<logVars, functionVars, ctx, out, seen, charVars, exprVars>>

\* t.flow()
Flow ==
    /\ pc = "simplified"
    /\ tpl' = flow(tpl)
    /\ pc' = "flowed"
    /\ UNCHANGED <<input, pos, spaces, ind, indTop, level, lastAdd, events, calls, lines>>
    /\ UNCHANGED <<logVars, functionVars, ctx, out, seen, charVars, exprVars>>

\* t.Process(c)
Processed(r) ==
    /\ out' = r.st.buf
    /\ ctx' = r.st.c
    /\ seen' = r.st.seen
    /\ pc' = IF r.st.abort = "none" THEN "processed" ELSE r.st.abort

Process ==
    /\ pc = "flowed"
    /\ Processed(process(tpl, ctx))
    /\ UNCHANGED <<input, pos, spaces, ind, indTop, level, lastAdd, events, calls, lines>>
    /\ UNCHANGED <<logVars, functionVars, tpl, charVars, exprVars>>

NextTemplate == ParseTemplate \/ Simplify \/ Flow \/ Process

SpecTemplate == InitTemplate /\ [][NextTemplate]_vars

----------------------------------------------------------------------------
(* The function bridge: Graph.Function on one node g *)

\* the names a !type may carry: the two built-in kinds, the constructor that
\* init() registers in factory[], and a name that is in no table
TypeNames == {"function", "rfunction", "nil", "other"}

\* factory[name] is there
Registered(name) == name = "nil"

\* what a call is made with: whether p[ix+1] is the argument group !g, whether
\* the name at p[ix] is a method of the instance (or, for "function", a name in
\* functions[]), whether the instance has an Init method, and whether the
\* remote end can be reached
Calls == [args : BOOLEAN, method : BOOLEAN, hasInit : BOOLEAN, reach : BOOLEAN]

\* the instance the k-th run of a constructor returns
Instance(k) == [instance |-> k]

\* n.Add(v): the instance becomes the next child of !type
Stored_Not(n, v) == n
Stored(n, v) == Append(n, v)

\* what a call returned (err = "" for nil), and the instance it worked on
Returned(err, v) == [err |-> err, on |-> v]

\* lines 149-182: the method of the instance v is looked up and called
Exec(c, v) ==
    IF ~c.args THEN Returned("missing !g", v)
    ELSE IF ~c.method THEN Returned("No method", v)
    ELSE Returned("", v)

\* Case 1: a function of functions[]
CallFunction(c) ==
    /\ fres' = Append(fres, IF c.method THEN Returned("", Instance(0))
                            ELSE Returned("function not in table", Instance(0)))
    /\ UNCHANGED <<fnode, made>>

\* Case 2: a remote function, made on the first call that reaches it
CallRemote(c) ==
    IF Len(fnode) = 1
    THEN IF ~c.reach
         THEN fres' = Append(fres, Returned("connect", Instance(0))) /\ UNCHANGED <<fnode, made>>
         ELSE /\ fnode' = Stored(fnode, Instance(made + 1))
              /\ made' = made + 1
              /\ fres' = Append(fres, Returned("", Instance(made + 1)))
    ELSE /\ fres' = Append(fres, Returned("", fnode[2]))
         /\ UNCHANGED <<fnode, made>>

\* Case 3, !type has one child: the constructor runs and the instance is
\* stored; with an !init node the Init method is called, which panics if
\* the instance has none
Construct(c) ==
    IF ~Registered(fnode[1])
    THEN fres' = Append(fres, Returned("function not in table", Instance(0)))
         /\ UNCHANGED <<fnode, made>>
    ELSE /\ made' = made + 1
         /\ fnode' = Stored(fnode, Instance(made + 1))
         /\ fres' = Append(fres, IF finit /\ ~c.hasInit
                                 THEN Returned("panic", Instance(made + 1))
                                 ELSE Exec(c, Instance(made + 1)))

\* Case 3, !type has a second child: it is the instance
Reuse(c) ==
    /\ fres' = Append(fres, Exec(c, fnode[2]))
    /\ UNCHANGED <<fnode, made>>

\* g.Function(p, ix, context)
Function ==
    /\ pc = "function" /\ Len(fres) < MaxCalls
    /\ \E c \in Calls :
          IF Len(fnode) = 0
          THEN fres' = Append(fres, Returned("", Instance(0))) /\ UNCHANGED <<fnode, made>>
          ELSE IF fnode[1] = "function" THEN CallFunction(c)
          ELSE IF fnode[1] = "rfunction" THEN CallRemote(c)
          ELSE IF Len(fnode) = 1 THEN Construct(c)
          ELSE Reuse(c)
    /\ UNCHANGED <<finit, parserVars, logVars, templateVars, charVars, exprVars>>

\* the node g as it is configured: its !type with no child or with a name,
\* with or without an !init node; no call has been made
InitFunction ==
    /\ NoParser
    /\ NoLog
    /\ NoTemplate
    /\ NoChars
    /\ NoExpr
    /\ pc = "function"
    /\ \/ fnode = <<>>
       \/ \E name \in TypeNames : fnode = <<name>>
    /\ finit \in BOOLEAN
    /\ made = 0
    /\ fres = <<>>

NextFunction == Function

SpecFunction == InitFunction /\ [][NextFunction]_vars

----------------------------------------------------------------------------
(* The character classes: IsOperatorChar asked about one integer *)

\* IsOperatorChar(ch) is called and what it returns is kept
Classify ==
    /\ pc = "chars" /\ cls.fn = "none"
    /\ cls' = [fn |-> "IsOperatorChar", ret |-> IsOperatorChar(ch)]
    /\ UNCHANGED <<ch, parserVars, logVars, templateVars, functionVars, exprVars>>

\* any integer of the explored range, negative ones and ones above 255
\* included
InitChars ==
    /\ NoParser
    /\ NoLog
    /\ NoTemplate
    /\ NoFunction
    /\ NoExpr
    /\ pc = "chars"
    /\ ch \in (-MaxChar)..MaxChar
    /\ cls = [fn |-> "none"]

NextChars == Classify

SpecChars == InitChars /\ [][NextChars]_vars

----------------------------------------------------------------------------
(* The productions of paths and expressions, each called on a text *)

\* any text over a letter, the minus and plus signs, parentheses and square
\* brackets
ExprInputs(n) == AllSeqs({97, 45, 43, LPAREN, RPAREN, 91, 93}, n)

\* bracketed parts nested up to a depth: a path, a number, an expression,
\* two elements with a blank or a comma between them, or nothing, inside
\* parentheses, square brackets or braces, alone or after a token, with or
\* without blanks inside the brackets
Brackets == {<<<<LPAREN>>, <<RPAREN>>>>, <<<<91>>, <<93>>>>, <<<<123>>, <<125>>>>,
             <<<<97, LPAREN>>, <<RPAREN>>>>, <<<<97, 91>>, <<93>>>>, <<<<97, 123>>, <<125>>>>,
             <<<<LPAREN, SP>>, <<SP, RPAREN>>>>}

RECURSIVE Nests(_)
Nests(d) ==
    IF d = 0 THEN {<<97>>, <<49>>, <<97, 43, 49>>, <<97, SP, 97>>, <<97, COMMA, 97>>, <<>>}
    ELSE Nests(d - 1) \cup {b[1] \o t \o b[2] : b \in Brackets, t \in Nests(d - 1)}

\* references to a variable in a template
VariableInputs(d) ==
    {<<DOLLAR>> \o t : t \in Nests(d)}
    \cup {<<DOLLAR, LPAREN>> \o t \o <<RPAREN>> : t \in Nests(d)}
    \cup {<<DOLLAR, 123>> \o t \o <<125>> : t \in Nests(d)}
    \cup {<<DOLLAR, BSLASH>>, <<DOLLAR, 123, SP, 97, SP, 125>>}

\* the sink before the call: at depth d, below d nodes added earlier
Parents(d) == [k \in 1..d |-> [lev |-> k - 1, val |-> <<112>>]]

InitExpr ==
    /\ \/ input \in ExprInputs(MaxExpr)
       \/ input \in Nests(MaxNest)
       \/ input \in VariableInputs(MaxNest)
    /\ pos = 1
    /\ spaces = 0
    /\ ind = <<0>>
    /\ indTop = 0
    /\ level \in {0, 1}
    /\ lastAdd = level - 1
    /\ events = Parents(level)
    /\ calls = <<>>
    /\ lines = <<>>
    /\ pc = "call"
    /\ back = 0
    /\ maxBack = 0
    /\ ungets \in {1, 2}
    /\ prods = <<>>
    /\ NoLog
    /\ NoTemplate
    /\ NoFunction
    /\ NoChars

\* the production returned: the parser, the sink and the histories are kept
Returned_(r) ==
    /\ r.st.abort = "none"
    /\ Store(r.st)
    /\ back' = r.st.back
    /\ maxBack' = r.st.maxBack
    /\ prods' = r.st.prods
    /\ pc' = IF r.ok THEN "true" ELSE "false"
    /\ UNCHANGED <<input, lines, ungets>>
    /\ UNCHANGED <<logVars, functionVars, templateVars, charVars>>

CallExpression == pc = "call" /\ Returned_(Expression(Cur))

CallPath == pc = "call" /\ IsLetter(Peek(Cur)) /\ Returned_(Path(Cur))

CallIndex == pc = "call" /\ Peek(Cur) = 91 /\ Returned_(Index(Cur))

CallSelector == pc = "call" /\ Peek(Cur) = 123 /\ Returned_(Selector(Cur))

CallArgs == pc = "call" /\ Peek(Cur) = LPAREN /\ Returned_(Args(Cur))

CallVariable == pc = "call" /\ Peek(Cur) = DOLLAR /\ Returned_(Variable(Cur))

\* what Group() returned is kept like the returns of the other productions
GroupReturn(g, st0) ==
    [st |-> Returns(g.st, "Group", IF g.ok THEN 314 ELSE 309, g.ok, st0), ok |-> g.ok]

CallGroup == pc = "call" /\ Peek(Cur) = LPAREN /\ Returned_(GroupReturn(Group(Cur), Cur))

NextExpr ==
    \/ CallExpression \/ CallPath \/ CallIndex \/ CallSelector \/ CallArgs
    \/ CallVariable \/ CallGroup

SpecExpr == InitExpr /\ [][NextExpr]_vars

----------------------------------------------------------------------------
(* What the claims speak about, read off the input text itself *)

Letters == {97, 98, 99, 100, 120}

\* a text of scalars, spaces, commas and parentheses only
Plain(t) == \A k \in 1..Len(t) : t[k] \in Letters \cup {SP, COMMA, LPAREN, RPAREN}

\* the number of groups open after the first k characters
RECURSIVE Open(_, _)
Open(t, k) ==
    IF k = 0 THEN 0
    ELSE Open(t, k - 1) + (IF t[k] = LPAREN THEN 1 ELSE IF t[k] = RPAREN THEN -1 ELSE 0)

Balanced(t) == Open(t, Len(t)) = 0 /\ \A k \in 1..Len(t) : Open(t, k) >= 0

\* a group of the line is followed, with no comma, by a scalar or a group
GroupThenElement(t) ==
    /\ Plain(t) /\ Balanced(t)
    /\ \E k \in 1..Len(t) : \E m \in (k + 1)..Len(t) :
          /\ t[k] = RPAREN /\ Open(t, k) = 0 /\ t[k - 1] \in Letters
          /\ \A j \in (k + 1)..(m - 1) : t[j] = SP
          /\ t[m] \in Letters \cup {LPAREN}

NumCommas(t) == Cardinality({k \in 1..Len(t) : t[k] = COMMA})

\* the scalars of a text: its maximal runs of letters
NumScalars(t) ==
    Cardinality({k \in 1..Len(t) : t[k] \in Letters /\ (k = 1 \/ t[k - 1] \notin Letters)})

\* C1: a line with a group followed, with no comma, by another element is a
\* syntax error, and the element after the group is not added to the tree
C1_ElementAfterGroupIsError ==
    (pc # "parsing" /\ GroupThenElement(input))
        => (pc = "error" /\ Len(events) < NumScalars(input))

\* C2: when Ogdl() returns nil the sink's current depth is 0
C2_DoneAtDepthZero == pc = "done" => level = 0

\* C3: after Line() has processed a line of column n at depth d, whatever
\* scalars the line holds, the table has ind[d] = n and ind[d+1] = n+1
C3_IndentTableAfterLine ==
    (lines # <<>> /\ lines[Len(lines)].adds > 0 /\ Plain(input) /\ NumCommas(input) = 0) =>
        (/\ IndOf(ind, lines[Len(lines)].l) = lines[Len(lines)].n
         /\ IndOf(ind, lines[Len(lines)].l + 1) = lines[Len(lines)].n + 1)

\* C5: a first line that begins with a mix of tabs and spaces makes Ogdl()
\* return a syntax error
RECURSIVE LeadingWs(_, _)
LeadingWs(t, k) ==
    IF k <= Len(t) /\ t[k] \in {SP, TAB} THEN 1 + LeadingWs(t, k + 1) ELSE 0

MixedFirstLine(t) ==
    /\ LeadingWs(t, 1) < Len(t)
    /\ \E j \in 2..LeadingWs(t, 1) : t[j] # t[1]

C5_MixedIndentIsError ==
    (pc # "parsing" /\ MixedFirstLine(input)) => pc = "error"

\* C4: the depths at which the scalars of a line are emitted.  The first
\* scalar is at the base depth l of the line, a scalar after a comma at the
\* depth at which its sequence (the line, or the innermost open group)
\* started, any other scalar one deeper than the scalar before it.
RECURSIVE ExpectedDepths(_, _, _, _)
ExpectedDepths(t, k, bases, d) ==
    IF k > Len(t) THEN <<>>
    ELSE IF t[k] = COMMA THEN ExpectedDepths(t, k + 1, bases, Head(bases))
    ELSE IF t[k] = LPAREN THEN ExpectedDepths(t, k + 1, <<d>> \o bases, d)
    ELSE IF t[k] = RPAREN THEN ExpectedDepths(t, k + 1, Tail(bases), d)
    ELSE IF t[k] \in Letters /\ (k = Len(t) \/ t[k + 1] \notin Letters)
         THEN <<d>> \o ExpectedDepths(t, k + 1, bases, d + 1)
    ELSE ExpectedDepths(t, k + 1, bases, d)

\* scalars separated by spaces or commas, alone or in groups that are closed
\* at the end of the line
GroupsClosedAtEnd(t) ==
    \A k \in 1..Len(t) : t[k] = RPAREN =>
        \A m \in (k + 1)..Len(t) : t[m] \in {SP, RPAREN}

Separated(t) ==
    /\ \A k \in 1..Len(t) : t[k] = COMMA =>
          \E m \in (k + 1)..Len(t) :
              t[m] \in Letters \cup {LPAREN} /\ \A j \in (k + 1)..(m - 1) : t[j] = SP
    /\ \A k \in 1..Len(t) : t[k] = COMMA =>
          \E m \in 1..(k - 1) :
              t[m] \in Letters /\ \A j \in (m + 1)..(k - 1) : t[j] = SP

ScalarLine(t) ==
    Plain(t) /\ Balanced(t) /\ GroupsClosedAtEnd(t) /\ Separated(t) /\ NumScalars(t) > 0

\* the text the last Line() call consumed, without its line break
LastLine ==
    LET c == lines[Len(lines)]
        t == SubSeq(input, c.start, (IF c.stop - 1 > Len(input) THEN Len(input) ELSE c.stop - 1))
    IN SelectSeq(t, LAMBDA x : x # LF /\ x # CR)

\* the depths of the nodes the last Line() call added
LastDepths ==
    LET c == lines[Len(lines)]
    IN [k \in 1..c.adds |-> events[Len(events) - c.adds + k].lev]

C4_ScalarDepths ==
    (lines # <<>> /\ ScalarLine(LastLine))
        => LET l == lines[Len(lines)].l
           IN LastDepths = ExpectedDepths(LastLine, 1, <<l>>, l)

\* a comma inside a group, after a chain, takes the depth back to that of
\* the group, which is deeper than the line
C4_Witness ==
    /\ lines # <<>> /\ ScalarLine(LastLine)
    /\ \E k \in 1..Len(LastLine) : LastLine[k] = LPAREN
    /\ \E k \in 3..Len(LastDepths) :
          /\ LastDepths[k - 1] = LastDepths[k - 2] + 1
          /\ LastDepths[k] < LastDepths[k - 1]
          /\ LastDepths[k] > lines[Len(lines)].l

\* a line below depth 0 with a chain and a comma
C4_WitnessDeepLine ==
    /\ lines # <<>> /\ ScalarLine(LastLine)
    /\ lines[Len(lines)].l > 0
    /\ \A k \in 1..Len(LastLine) : LastLine[k] # LPAREN
    /\ \E k \in 3..Len(LastDepths) :
          /\ LastDepths[k - 1] = LastDepths[k - 2] + 1
          /\ LastDepths[k] = lines[Len(lines)].l

----------------------------------------------------------------------------
(* Blocks and comments, read off the input text *)

\* the first position of the line that holds position k (LF or CR ends a line)
RECURSIVE LineBegin(_, _)
LineBegin(t, k) ==
    IF k <= 1 THEN 1
    ELSE IF k - 1 <= Len(t) /\ t[k - 1] \in {LF, CR} THEN k
    ELSE LineBegin(t, k - 1)

\* the number of spaces from position k on
RECURSIVE SpacesAt(_, _)
SpacesAt(t, k) == IF k <= Len(t) /\ t[k] = SP THEN 1 + SpacesAt(t, k + 1) ELSE 0

\* the indentation of the line that holds position k
IndentOfLine(t, k) == SpacesAt(t, LineBegin(t, k))

\* the first position of the line after the one that starts at k
RECURSIVE NextLine(_, _)
NextLine(t, k) ==
    IF k > Len(t) THEN Len(t) + 1
    ELSE IF t[k] = LF THEN k + 1
    ELSE NextLine(t, k + 1)

\* the lines of t[from..to], a final LF closing the last line
RECURSIVE SplitLines(_, _, _)
SplitLines(t, from, to) ==
    IF from > to THEN <<>>
    ELSE LET nx == NextLine(t, from)
             stop == IF nx - 1 > to THEN to ELSE nx - 1
             body == SubSeq(t, from, IF t[stop] = LF THEN stop - 1 ELSE stop)
         IN <<body>> \o SplitLines(t, stop + 1, to)

LeadSpaces(l) == SpacesAt(l, 1)

MinIndent(ls) ==
    CHOOSE m \in {LeadSpaces(ls[k]) : k \in 1..Len(ls)} :
        \A k \in 1..Len(ls) : m <= LeadSpaces(ls[k])

RECURSIVE JoinLF(_)
JoinLF(ls) ==
    IF ls = <<>> THEN <<>>
    ELSE IF Len(ls) = 1 THEN ls[1]
    ELSE ls[1] \o <<LF>> \o JoinLF(Tail(ls))

\* the lines with their common indentation removed, joined by LF
BlockText(ls) ==
    IF ls = <<>> THEN <<>>
    ELSE JoinLF([k \in 1..Len(ls) |-> SubSeq(ls[k], MinIndent(ls) + 1, Len(ls[k]))])

\* a text of letters, spaces, backslashes and LF line breaks, in which every
\* line ends with LF and no line ends with a space
BlockInput(t) ==
    /\ \A k \in 1..Len(t) : t[k] \in Letters \cup {SP, BSLASH, LF}
    /\ Len(t) > 0 /\ t[Len(t)] = LF
    /\ \A k \in 1..(Len(t) - 1) : t[k] = SP => t[k + 1] # LF

\* the block at position k is opened by a line of one scalar, a space and
\* the backslash, and the text starts at column 0
OneScalarOpener(t, k) ==
    /\ t[1] # SP
    /\ k >= 3 /\ t[k - 1] = SP /\ t[k - 2] \in Letters
    /\ k - 2 = LineBegin(t, k) + IndentOfLine(t, k)

\* the last character a Block() call took for the block
BlockLast(c) ==
    IF c.endpos - c.owed - 1 > Len(input) THEN Len(input) ELSE c.endpos - c.owed - 1

\* C6: Block() returns the lines it took, joined by LF with no trailing
\* newline, less their minimum indentation; deeper indentation stays
C6_BlockKeepsRelativeIndent ==
    BlockInput(input) =>
        \A k \in 1..Len(calls) :
            (calls[k].fn = "Block" /\ OneScalarOpener(input, calls[k].at)) =>
            calls[k].ret = BlockText(SplitLines(input, calls[k].at + 2, BlockLast(calls[k])))

\* the start of the first line from k on that is indented by col or less
RECURSIVE BlockEnd(_, _, _)
BlockEnd(t, k, col) ==
    IF k > Len(t) \/ SpacesAt(t, k) <= col THEN k
    ELSE BlockEnd(t, NextLine(t, k), col)

\* the Block() call c stopped at the line that starts at e, owing its spaces
BlockEndsAt(c, e) ==
    /\ c.owed = SpacesAt(input, e)
    /\ (IF c.endpos > Len(input) THEN Len(input) + 1 ELSE c.endpos) = e + c.owed

\* C7: a block ends at the first line whose indentation j is not greater
\* than the column of the line that opened it; the j spaces are owed
C7_BlockEndsAtOpeningColumn ==
    BlockInput(input) =>
        \A k \in 1..Len(calls) :
            (calls[k].fn = "Block" /\ OneScalarOpener(input, calls[k].at)) =>
            BlockEndsAt(calls[k], BlockEnd(input, calls[k].at + 2,
                                           IndentOfLine(input, calls[k].at)))

\* C8: the line after a line that ends in a comment is seen by Line() with
\* the indentation it has in the text
C8_CommentKeepsNextIndent ==
    (/\ Len(lines) = 2 /\ lines[1].comment /\ lines[2].adds > 0
     /\ \A k \in 1..Len(input) : input[k] \in Letters \cup {SP, HASH, LF, CR})
        => lines[2].n = IndentOfLine(input, lines[2].start)

----------------------------------------------------------------------------
(* Quoted strings, read off the input text *)

Quotes == {DQUOTE, SQUOTE}

\* the position of the first unescaped delimiter q from k on, 0 if none; a
\* backslash escapes the character after it
RECURSIVE ClosingQuote(_, _, _)
ClosingQuote(t, k, q) ==
    IF k > Len(t) THEN 0
    ELSE IF t[k] = q THEN k
    ELSE IF t[k] = BSLASH THEN ClosingQuote(t, k + 2, q)
    ELSE ClosingQuote(t, k + 1, q)

\* the value of t[k..to]: \" gives ", \' gives ', \\ gives \
RECURSIVE Unescaped(_, _, _)
Unescaped(t, k, to) ==
    IF k > to THEN <<>>
    ELSE IF t[k] = BSLASH /\ k < to THEN <<t[k + 1]>> \o Unescaped(t, k + 2, to)
    ELSE <<t[k]>> \o Unescaped(t, k + 1, to)

\* every backslash of t[k..to] is followed by a quote or a backslash
RECURSIVE OnlyQuoteEscapes(_, _, _)
OnlyQuoteEscapes(t, k, to) ==
    IF k > to THEN TRUE
    ELSE IF t[k] = BSLASH
         THEN k < to /\ t[k + 1] \in Quotes \cup {BSLASH} /\ OnlyQuoteEscapes(t, k + 2, to)
    ELSE OnlyQuoteEscapes(t, k + 1, to)

\* C9: in a quoted string \" and \' contribute the quote alone and \\ a
\* single backslash; the string ends at the first unescaped delimiter
QuotedAsClaimed(c, e) ==
    (e > 0 /\ OnlyQuoteEscapes(input, c.at + 1, e - 1))
        => (c.endpos = e + 1 /\ c.ret = Unescaped(input, c.at + 1, e - 1))

C9_QuotedEscapes ==
    \A k \in 1..Len(calls) : calls[k].fn = "Quoted" =>
        QuotedAsClaimed(calls[k], ClosingQuote(input, calls[k].at + 1, input[calls[k].at]))

\* C10: a text that ends inside a quoted string is a syntax error
UnclosedQuote(t) ==
    Len(t) > 0 /\ t[1] \in Quotes /\ ClosingQuote(t, 2, t[1]) = 0

C10_UnclosedQuoteIsError ==
    (pc # "parsing" /\ UnclosedQuote(input)) => pc = "error"

----------------------------------------------------------------------------
(* The log *)

\* the log was empty when it was opened and holds k >= 1 records written by Add
AddedToEmptyLog ==
    /\ added # <<>>
    /\ added[1].off = 0
    /\ \A j \in 1..Len(added) : added[j].op = "Add"

\* the record R(j) as Get is said to return it: its tree, and the offset of
\* the record after it, -1 after the last one
GetAsClaimed(r, j) ==
    /\ Binary(r.g) = added[j].b
    /\ r.next = IF j < Len(added) THEN added[j + 1].off ELSE -1

\* C11: after appending records R1..Rk to an empty log with Add, a Get at the
\* offset of Ri returns Ri and the offset of R(i+1) for i < k, and a Get at
\* the offset of the last record returns it with next offset -1.
C11_GetWalksTheLog ==
    [][(AddedToEmptyLog /\ added' = added /\ got'.op = "Get")
         => \A j \in 1..Len(added) :
               got'.at = added[j].off => GetAsClaimed(got', j)]_vars

\* C12: every Add and AddBinary call returns the length the file had before
\* the call and writes its whole record there: the returned offsets increase
\* strictly and every record written so far is still in the file, unchanged,
\* at its offset.
C12_AppendOnly ==
    \A j \in 1..Len(added) :
        /\ added[j].off = added[j].before
        /\ SubSeq(file, added[j].off + 1, added[j].off + Len(added[j].b)) = added[j].b
        /\ j < Len(added) => added[j].off < added[j + 1].off

\* both kinds of call were made, on a file that held a record before, and a
\* read has left the file position inside the file
C12_Witness ==
    /\ Len(added) >= 2
    /\ added[1].off > 0
    /\ \E j \in 1..Len(added) : \E k \in 1..Len(added) : added[j].op # added[k].op
    /\ got.op = "Get" /\ fpos < Len(file)

\* C13: GetBinary(i) on a record of n bytes stored at offset i returns those n
\* bytes and, as next offset, i + n.
C13_GetBinaryNextOffset ==
    got.op = "GetBinary" =>
        \A j \in 1..Len(added) :
            got.at = added[j].off =>
                /\ got.b = added[j].b
                /\ got.next = got.at + Len(added[j].b)

----------------------------------------------------------------------------
(* Templates *)

NoDollar(t) == \A k \in 1..Len(t) : t[k] # DOLLAR

\* C14: for every template text that holds no $, NewTemplate followed by
\* Process returns exactly the bytes of the text, control characters included.
C14_LiteralTextVerbatim ==
    (pc = "processed" /\ input # <<>> /\ NoDollar(input)) => out = input

\* the list of nodes a node owns as its body: the Template child of an If or
\* a For, the children of an Else
BodyOf(n) ==
    IF n.this = TypeIf \/ n.this = TypeFor THEN GetAt(n, 1).out
    ELSE IF n.this = TypeElse THEN n.out
    ELSE <<>>

\* every list of nodes of a nested template that process() may loop over
RECURSIVE Lists(_)
Lists(t) == {t} \cup UNION {Lists(BodyOf(t[k])) : k \in 1..Len(t)}

\* the nodes of a list and of the bodies below it
RECURSIVE Ids(_)
Ids(t) == {t[k].id : k \in 1..Len(t)} \cup UNION {Ids(BodyOf(t[k])) : k \in 1..Len(t)}

Visited == {seen[p] : p \in 1..Len(seen)}

\* a body was rendered: process() came to its first node
Entered(body) == body = <<>> \/ body[1].id \in Visited

\* a body was not rendered: process() came to none of its nodes
Skipped(body) == Ids(body) \cap Visited = {}

\* the guard of an If: the names it may refer to are never assigned to
Guard(n) == EvalBool(Ctx0, GetAt(GetAt(n, 0), 0))

\* an If that process() came to, with its Else after it
IfElseAt(l, k) ==
    /\ l[k].this = TypeIf /\ l[k + 1].this = TypeElse
    /\ l[k].id \in Visited

\* C15: for an If with a matching Else at the same nesting level, process()
\* renders the then-body and not the else-body if the guard is true, the
\* else-body and not the then-body if it is false.
C15_IfElseRendersOne ==
    pc = "processed" =>
        \A l \in Lists(tpl) : \A k \in 1..(Len(l) - 1) :
            IfElseAt(l, k) =>
                IF Guard(l[k])
                THEN Entered(BodyOf(l[k])) /\ Skipped(BodyOf(l[k + 1]))
                ELSE Skipped(BodyOf(l[k])) /\ Entered(BodyOf(l[k + 1]))

\* inside another block, an If whose guard is false was reached and its Else rendered,
\* both bodies holding nodes
C15_Witness ==
    /\ pc = "processed"
    /\ \E l \in Lists(tpl) \ {tpl} : \E k \in 1..(Len(l) - 1) :
          /\ IfElseAt(l, k) /\ ~Guard(l[k])
          /\ BodyOf(l[k]) # <<>> /\ BodyOf(l[k + 1]) # <<>>
          /\ BodyOf(l[k + 1])[1].id \in Visited

\* the Break nodes of a list, each with the For whose body it is in (the
\* innermost one): the nodes of that body and the node after the For (0 if
\* the For is the last of its list)
NoFor == [body |-> {}, next |-> -1]

RECURSIVE BreaksIn(_, _)
BreaksIn(t, f) ==
    UNION {IF t[k].this = TypeBreak
           THEN {[brk |-> t[k].id, body |-> f.body, next |-> f.next]}
           ELSE IF t[k].this = TypeFor
           THEN BreaksIn(BodyOf(t[k]),
                         [body |-> Ids(BodyOf(t[k])),
                          next |-> IF k < Len(t) THEN t[k + 1].id ELSE 0])
           ELSE BreaksIn(BodyOf(t[k]), f) : k \in 1..Len(t)}

\* C16: when a Break is reached in the body of a For, directly or inside an
\* If or an Else of the body, no node of that body is processed after it, and
\* processing goes on with the node after the For.
C16_BreakEndsTheFor ==
    pc = "processed" =>
        \A b \in BreaksIn(tpl, NoFor) : \A p \in 1..Len(seen) :
            (b.next # -1 /\ seen[p] = b.brk) =>
                /\ p < Len(seen) => seen[p + 1] \notin b.body
                /\ b.next > 0 => (p < Len(seen) /\ seen[p + 1] = b.next)

\* the source of a For is no graph: the names it may refer to are never
\* assigned to
NotIterable(n) == ~Eval(Ctx0, GetAt(GetAt(n, 0), 1)).graph

\* C17: when the source of a For is not iterable, process() processes no node
\* of its body and goes on with the node after the For.
C17_NotIterableForIsSkipped ==
    pc = "processed" =>
        \A l \in Lists(tpl) : \A k \in 1..Len(l) : \A p \in 1..Len(seen) :
            (l[k].this = TypeFor /\ NotIterable(l[k]) /\ seen[p] = l[k].id) =>
                /\ p < Len(seen) => seen[p + 1] \notin Ids(BodyOf(l[k]))
                /\ k < Len(l) => (p < Len(seen) /\ seen[p + 1] = l[k + 1].id)

\* The nest of a flat list, by matching every End with the last If or For
\* still open before it.
Opens(n) == n.this = TypeIf \/ n.this = TypeFor

\* the number of blocks open after the first k nodes
RECURSIVE OpenAt(_, _)
OpenAt(t, k) ==
    IF k = 0 THEN 0
    ELSE OpenAt(t, k - 1)
         + (IF Opens(t[k]) THEN 1 ELSE IF t[k].this = TypeEnd THEN -1 ELSE 0)

\* the End that closes the block opened at k
MatchOf(t, k) ==
    CHOOSE e \in (k + 1)..Len(t) :
        /\ t[e].this = TypeEnd /\ OpenAt(t, e) = OpenAt(t, k) - 1
        /\ \A j \in (k + 1)..(e - 1) : OpenAt(t, j) >= OpenAt(t, k)

\* the Else nodes at the own level of the block from k to e
OwnElses(t, k, e) ==
    {m \in (k + 1)..(e - 1) : t[m].this = TypeElse /\ OpenAt(t, m) = OpenAt(t, k)}

\* If/For and End are balanced, and a block has at most one Else of its own
BalancedList(t) ==
    /\ OpenAt(t, Len(t)) = 0
    /\ \A k \in 1..Len(t) : OpenAt(t, k) >= 0
    /\ \A k \in 1..Len(t) : Opens(t[k]) => Cardinality(OwnElses(t, k, MatchOf(t, k))) <= 1

\* where the then-part of the block from k to e ends: at its Else, or at e
ThenEnd(t, k, e) ==
    IF OwnElses(t, k, e) = {} THEN e ELSE CHOOSE m \in OwnElses(t, k, e) : TRUE

RECURSIVE Nested(_, _, _), NestedBlock(_, _, _, _, _)
Nested(t, a, b) ==
    IF a > b THEN <<>>
    ELSE IF Opens(t[a]) THEN NestedBlock(t, a, b, ThenEnd(t, a, MatchOf(t, a)), MatchOf(t, a))
    ELSE <<t[a]>> \o Nested(t, a + 1, b)

NestedBlock(t, a, b, m, e) ==
    <<[t[a] EXCEPT !.out = Append(@, Graph(TypeTemplate, 0, Nested(t, a + 1, m - 1)))]>>
    \o (IF m < e THEN <<[t[m] EXCEPT !.out = @ \o Nested(t, m + 1, e - 1)]>> ELSE <<>>)
    \o Nested(t, e + 1, b)

\* C18: for every flat list in which If/For and End are balanced, flow() gives
\* each If and For a Template child holding the nodes up to its matching End,
\* nested blocks nested in turn, the Else of the block taking the else-part,
\* and leaves no End in the tree.
C18_FlowNestsLifo ==
    [][(pc = "simplified" /\ pc' = "flowed" /\ BalancedList(tpl))
         => tpl' = Nested(tpl, 1, Len(tpl))]_vars

\* a nested template: a block with an Else part inside another block
C18_Witness ==
    /\ pc = "flowed"
    /\ \E k \in 1..Len(tpl) : \E j \in 1..(Len(BodyOf(tpl[k])) - 1) :
          /\ Opens(tpl[k])
          /\ Opens(BodyOf(tpl[k])[j]) /\ BodyOf(BodyOf(tpl[k])[j]) # <<>>
          /\ BodyOf(tpl[k])[j + 1].this = TypeElse /\ BodyOf(BodyOf(tpl[k])[j + 1]) # <<>>

\* the keywords and their tags
Tags ==
    {<<KwIf, TypeIf>>, <<KwElse, TypeElse>>, <<KwEnd, TypeEnd>>, <<KwFor, TypeFor>>,
     <<KwBreak, TypeBreak>>}

\* a Path whose first element is a keyword
KeywordPath(n) ==
    n.this = TypePath /\ n.out # <<>> /\ \E kt \in Tags : n.out[1].this = kt[1]

\* C19: simplify() gives every child of the root that is a Path with first
\* element if, else, end, for or break the tag of the keyword and removes that
\* element, and leaves every other child as it is, all in the same order.
C19_SimplifyRetagsKeywords ==
    [][(pc = "parsed" /\ pc' = "simplified") =>
         /\ Len(tpl') = Len(tpl)
         /\ \A k \in 1..Len(tpl) :
               IF KeywordPath(tpl[k])
               THEN /\ <<tpl[k].out[1].this, tpl'[k].this>> \in Tags
                    /\ tpl'[k].out = Tail(tpl[k].out)
                    /\ tpl'[k].id = tpl[k].id
               ELSE tpl'[k] = tpl[k]]_vars

\* simplified: an If that kept its guard, between a path and an expression
\* that are no keywords
C19_Witness ==
    /\ pc = "simplified"
    /\ \E k \in 2..(Len(tpl) - 1) :
          /\ tpl[k].this = TypeIf /\ Len(tpl[k].out) = 1
          /\ tpl[k - 1].this = TypePath /\ tpl[k - 1].out # <<>>
          /\ tpl[k + 1].this = TypeExpression

----------------------------------------------------------------------------
(* The function bridge *)

\* C20: over the Function() calls on a node whose !type names a registered
\* constructor, the constructor has run exactly once as soon as a call was
\* made, its result is the second child of !type, every call worked on that
\* instance, and !type never has more than two children.
C20_ConstructedOnce ==
    (pc = "function" /\ fnode # <<>> /\ Registered(fnode[1])) =>
        /\ Len(fnode) <= 2
        /\ fres = <<>> => (made = 0 /\ Len(fnode) = 1)
        /\ fres # <<>> =>
              /\ made = 1 /\ Len(fnode) = 2 /\ fnode[2] = Instance(1)
              /\ \A k \in 1..Len(fres) : fres[k].on = Instance(1)

\* three calls on a node with an !init: the first one failed after the
\* instance was made, a later one went through
C20_Witness ==
    /\ pc = "function" /\ fnode # <<>> /\ Registered(fnode[1]) /\ finit
    /\ Len(fres) = 3
    /\ fres[1].err # "" /\ fres[3].err = ""

----------------------------------------------------------------------------
(* The character classes *)

\* C21: IsOperatorChar(c) returns true exactly when c is one of the 13
\* characters + - * / % & | ! < > = ~ ^, for every integer c, negative
\* values and values above 255 included
C21_OperatorCharExact ==
    cls.fn = "IsOperatorChar" => (cls.ret <=> ch \in OperatorChars)

----------------------------------------------------------------------------
(* The reader and the productions of paths and expressions *)

\* C22: in every execution of the parser productions, no two Unread()
\* calls happen without a Read() between them
C22_OneUnreadAtATime == maxBack <= 1

\* C23: Ogdl() terminates on every finite input: every Line() call that
\* returns more=true has consumed at least one character, also when the next
\* character is one no production accepts
C23_LineMoreConsumes == \A k \in 1..Len(lines) : lines[k].stop > lines[k].start

\* the returns the claim calls a failed speculative production
Speculative ==
    {[fn |-> "Index", line |-> 858], [fn |-> "Selector", line |-> 883],
     [fn |-> "Args", line |-> 908], [fn |-> "Expression", line |-> 712],
     [fn |-> "ArgList", line |-> 935]}

\* C24: a speculative production that fails leaves the event sink as it was
\* when the production was entered: no node added by it remains and the
\* current level is unchanged
C24_FailureLeavesSink ==
    \A k \in 1..Len(prods) :
        [fn |-> prods[k].fn, line |-> prods[k].line] \in Speculative
            => prods[k].same /\ prods[k].levOut = prods[k].levIn

\* the productions that restore the level
Bracketed == {"Group", "Args", "Index", "Selector", "Variable"}

\* C25: whenever Group(), Args(), Index(), Selector() or Variable() returns
\* success, the current level of the sink is the level it had when the
\* production was entered
C25_LevelRestored ==
    \A k \in 1..Len(prods) :
        (prods[k].fn \in Bracketed /\ prods[k].ok) => prods[k].levOut = prods[k].levIn

\* a bracketed production entered below the top has returned success after
\* another one, entered deeper inside its brackets, has returned success
C25_Witness ==
    \E j, k \in 1..Len(prods) :
        /\ j < k
        /\ prods[j].fn \in Bracketed /\ prods[j].ok
        /\ prods[k].fn \in Bracketed /\ prods[k].ok
        /\ prods[k].fn # prods[j].fn
        /\ prods[k].levIn = 1 /\ prods[j].levIn > 1

====
